---- MODULE Spec2Model ----
(***************************************************************************)
(* Model of the PDF report builder of the Stock Fundamentals Decoder:      *)
(* services/utils.py, build_pdf and its nested helpers (pdf_safe,          *)
(* write_heading, write_metric, write_right_block), drawing on an FPDF     *)
(* canvas; of its caller and the Streamlit script in app.py; and of the    *)
(* ticker and fund-composition services.                                   *)
(*                                                                         *)
(* Strings are sequences of Unicode code points.                           *)
(***************************************************************************)
EXTENDS Integers, Sequences, FiniteSets, TLC

(***************************************************************************)
(* Characters named by the sanitizer.                                      *)
(***************************************************************************)
CR == 13
LF == 10
STAR == 42
HYPHEN == 45
APOSTROPHE == 39
DQUOTE == 34
EM_DASH == 8212
EN_DASH == 8211
BULLET == 8226
RSQUOTE == 8217
LSQUOTE == 8216
LDQUOTE == 8220
RDQUOTE == 8221
LATIN1_MAX == 255

\* The characters pdf_safe is designed to remove (keys of `replacements`).
Typographic == {EM_DASH, EN_DASH, BULLET, RSQUOTE, LSQUOTE, LDQUOTE, RDQUOTE}

\* Input alphabet: the characters the sanitizer treats specially, plus an
\* ASCII letter (97), a Latin-1 letter (233) and a non-Latin-1 symbol (8364).
Chars == Typographic \cup {CR, LF, STAR, HYPHEN} \cup {97, 233, 8364}

MaxLen == 3
MaxPasses == 2

Strings == UNION {[1..n -> Chars] : n \in 0..MaxLen}

(***************************************************************************)
(* str.replace(old, new): leftmost, non-overlapping, single scan.          *)
(***************************************************************************)
RECURSIVE Replace(_, _, _)
Replace(s, old, new) ==
    IF Len(s) < Len(old) THEN s
    ELSE IF SubSeq(s, 1, Len(old)) = old
         THEN new \o Replace(SubSeq(s, Len(old) + 1, Len(s)), old, new)
         ELSE <<s[1]>> \o Replace(Tail(s), old, new)

\* Mutant of Latin1Ignore: nothing is dropped.
Latin1Ignore_keep(s) == s

\* text.encode("latin-1", errors="ignore").decode("latin-1")
Latin1Ignore(s) == SelectSeq(s, LAMBDA c : c <= LATIN1_MAX)

\* The `replacements` dict, in insertion (= iteration) order.
replacements ==
    << <<EM_DASH, HYPHEN>>, <<EN_DASH, HYPHEN>>, <<BULLET, HYPHEN>>,
       <<RSQUOTE, APOSTROPHE>>, <<LSQUOTE, APOSTROPHE>>,
       <<LDQUOTE, DQUOTE>>, <<RDQUOTE, DQUOTE>> >>

RECURSIVE ApplyReplacements(_, _, _)
ApplyReplacements(s, table, i) ==
    IF i > Len(table) THEN s
    ELSE ApplyReplacements(Replace(s, <<table[i][1]>>, <<table[i][2]>>), table, i + 1)

\* Mutant of pdf_safe: the right single quote is missing from the table.
pdf_safe_no_rsquote(text, unicode_enabled) ==
    LET t1 == Replace(text, <<CR>>, <<LF>>)
        t2 == ApplyReplacements(t1, SubSeq(replacements, 1, 3) \o SubSeq(replacements, 5, 7), 1)
        t3 == Replace(t2, <<LF, LF>>, <<LF>>)
        t4 == Replace(t3, <<STAR, STAR>>, <<>>)
    IN  IF unicode_enabled THEN t4 ELSE Latin1Ignore(t4)

\* Mutant of pdf_safe: the em dash is passed through.
pdf_safe_no_emdash(text, unicode_enabled) ==
    LET t1 == Replace(text, <<CR>>, <<LF>>)
        t2 == ApplyReplacements(t1, Tail(replacements), 1)
        t3 == Replace(t2, <<LF, LF>>, <<LF>>)
        t4 == Replace(t3, <<STAR, STAR>>, <<>>)
    IN  IF unicode_enabled THEN t4 ELSE Latin1Ignore(t4)

\* build_pdf.pdf_safe, reading the enclosing unicode_enabled.
pdf_safe(text, unicode_enabled) ==
    LET t1 == Replace(text, <<CR>>, <<LF>>)
        t2 == ApplyReplacements(t1, replacements, 1)
        t3 == Replace(t2, <<LF, LF>>, <<LF>>)
        t4 == Replace(t3, <<STAR, STAR>>, <<>>)
    IN  IF unicode_enabled THEN t4 ELSE Latin1Ignore(t4)

\* cleaned_text = pdf_safe(insights_text.replace("•", "-").replace("**", ""))
CleanedText(insights_text, unicode_enabled) ==
    pdf_safe(Replace(Replace(insights_text, <<BULLET>>, <<HYPHEN>>),
                     <<STAR, STAR>>, <<>>),
             unicode_enabled)

\* The text write_right_block hands to multi_cell: pdf_safe(text).
RightBlockText(text, unicode_enabled) == pdf_safe(text, unicode_enabled)

Contains(s, sub) ==
    \E i \in 1..(Len(s) - Len(sub) + 1) : SubSeq(s, i, i + Len(sub) - 1) = sub

Count(s, cs) == Cardinality({i \in 1..Len(s) : s[i] \in cs})

(***************************************************************************)
(* The FPDF canvas.  Lengths are held in UNIT-ths of a millimetre, so that *)
(* the half millimetres of the gauge marker and chart_width / (n - 1) are  *)
(* whole numbers; FPDF() is the default A4 portrait page in millimetres    *)
(* with 1 cm margins (taken as whole millimetres).                         *)
(***************************************************************************)
UNIT == 2 * 2 * 3 * 5
mm(k) == k * UNIT

PAGE_W == 210
PAGE_H == 297
PAGE_MARGIN == 10
BREAK_MARGIN == 15
LEFT_WIDTH == 110
GAP == 8
BAR_HEIGHT == 4
CHART_HEIGHT == 40
SYNC_GAP == 4
EPSILON == 1

MaxWrap == 2
LongLines == 35
MaxBadges == 2
MaxHist == 3
MaxVal == 2
MaxCalls == 2

Max(a, b) == IF a >= b THEN a ELSE b
Min(a, b) == IF a <= b THEN a ELSE b

\* pdf.page_break_trigger after set_auto_page_break(auto=True, margin=15)
PageBreakTrigger == mm(PAGE_H) - mm(BREAK_MARGIN)

\* The FPDF object right after FPDF(), set_auto_page_break and add_page().
NewCanvas ==
    [page |-> 1, x |-> mm(PAGE_MARGIN), y |-> mm(PAGE_MARGIN),
     l_margin |-> mm(PAGE_MARGIN), r_margin |-> mm(PAGE_MARGIN),
     font |-> [family |-> "", style |-> "", size |-> 0],
     fonts |-> {"Arial"} \X {"", "B", "I", "BI"},
     text_color |-> <<0, 0, 0>>, draw_color |-> <<0, 0, 0>>,
     fill_color |-> <<0, 0, 0>>]

\* The canvas before build_pdf has constructed one.
NoCanvas ==
    [page |-> 0, x |-> 0, y |-> 0, l_margin |-> 0, r_margin |-> 0,
     font |-> [family |-> "", style |-> "", size |-> 0], fonts |-> {},
     text_color |-> <<0, 0, 0>>, draw_color |-> <<0, 0, 0>>,
     fill_color |-> <<0, 0, 0>>]

\* pdf.add_font(family, style, path, uni=True)
AddFont(p, family, style) == [p EXCEPT !.fonts = @ \cup {<<family, style>>}]

\* pdf.set_font raises "Undefined font" for a style that is neither a core
\* font nor registered with add_font.
FontDefined(p, family, style) == <<family, style>> \in p.fonts

SetFont(p, family, style, size) ==
    [p EXCEPT !.font = [family |-> family, style |-> style, size |-> size]]

\* Mutant of Ln: the line feed goes up.
Ln_up(p, h) == [p EXCEPT !.x = p.l_margin, !.y = p.y - h]

\* pdf.ln(h)
Ln(p, h) == [p EXCEPT !.x = p.l_margin, !.y = p.y + h]

\* pdf.set_y(y), pdf.set_x(x), pdf.set_xy(x, y)
SetY(p, y) == [p EXCEPT !.x = p.l_margin, !.y = y]
SetX(p, x) == [p EXCEPT !.x = x]
SetXY(p, x, y) == SetX(SetY(p, y), x)
SetLeftMargin(p, m) ==
    [p EXCEPT !.l_margin = m, !.x = IF p.page > 0 /\ p.x < m THEN m ELSE p.x]

\* One printed line of height h: cell() starts a new page first when the line
\* would cross the page-break trigger.
BreaksPage(p, h) == p.y + h > PageBreakTrigger

\* n printed lines of height h, each breaking the page when it has to: the
\* lines that still fit on this page, then full pages, then the last page.
LinesThatFit(y, h) == IF y + h > PageBreakTrigger THEN 0 ELSE (PageBreakTrigger - y) \div h
LinesPerPage(h) == (PageBreakTrigger - mm(PAGE_MARGIN)) \div h

CellLines(p, h, n) ==
    LET fit == LinesThatFit(p.y, h)
        rest == n - fit
        added == (rest + LinesPerPage(h) - 1) \div LinesPerPage(h)
        last == rest - (added - 1) * LinesPerPage(h)
    IN  IF n <= fit THEN [p EXCEPT !.y = p.y + n * h]
        ELSE [p EXCEPT !.page = p.page + added, !.y = mm(PAGE_MARGIN) + last * h]

\* pdf.multi_cell(w, h, txt) for a text that wraps into n lines, and
\* pdf.cell(w, h, txt, ln=True): the cursor returns to the left margin.
MultiCell(p, h, n) == [CellLines(p, h, n) EXCEPT !.x = p.l_margin]

\* Where the first line of a text written at the cursor is printed.
TextTop(p, h) ==
    IF BreaksPage(p, h) THEN [page |-> p.page + 1, y |-> mm(PAGE_MARGIN)]
    ELSE [page |-> p.page, y |-> p.y]

\* The record of one text write: element, font in force, the mode pdf_safe
\* ran under, the cell width, and where it starts and ends.
TextOp(p, el, w, h, n, uni) ==
    [op |-> "text", el |-> el, font |-> p.font, uni |-> uni,
     x |-> p.x, w |-> IF w = 0 THEN mm(PAGE_W) - p.r_margin - p.x ELSE w,
     page |-> TextTop(p, h).page, y |-> TextTop(p, h).y,
     page2 |-> MultiCell(p, h, n).page, y2 |-> MultiCell(p, h, n).y,
     color |-> p.text_color, txt |-> <<>>]

\* pdf.rect(x, y, w, h, style)
RectOp(p, el, x, y, w, h, style) ==
    [op |-> "rect", el |-> el, x |-> x, y |-> y, w |-> w, h |-> h,
     page |-> p.page, style |-> style,
     color |-> IF style = "F" THEN p.fill_color ELSE p.draw_color]

\* pdf.line(x1, y1, x2, y2)
LineOp(p, x1, y1, x2, y2) ==
    [op |-> "line", el |-> "chart_segment", x1 |-> x1, y1 |-> y1,
     x2 |-> x2, y2 |-> y2, page |-> p.page, color |-> p.draw_color]

\* The lowest point column content reaches on the page it was last drawn on.
Extend(e, page, y) ==
    IF page > e.page THEN [page |-> page, y |-> y]
    ELSE IF page = e.page THEN [page |-> page, y |-> Max(e.y, y)]
    ELSE e

(***************************************************************************)
(* Floats of the gauge: a value in UNIT-ths, or NaN.  Python's min and max *)
(* keep their first argument unless the second compares smaller / greater, *)
(* and every comparison with NaN is false.                                 *)
(***************************************************************************)
Float(v) == [nan |-> FALSE, v |-> v]
NaN == [nan |-> TRUE, v |-> 0]
ONE == UNIT
HALF == UNIT \div 2
Less(a, b) == ~a.nan /\ ~b.nan /\ a.v < b.v
PyMin(a, b) == IF Less(b, a) THEN b ELSE a
PyMax(a, b) == IF Less(a, b) THEN b ELSE a

\* info["slider"]["position"] as the caller may supply it.
PositionChoices ==
    [kind : {"num"}, v : {0 - HALF, 0, UNIT \div 4, HALF, ONE, ONE + HALF}]
    \cup [kind : {"missing", "bad", "nan"}, v : {0}]

\* try: pos = float(slider.get("position", 0.5))  except Exception: pos = 0.5
SliderPosition(position) ==
    CASE position.kind = "num" -> Float(position.v)
      [] position.kind = "nan" -> NaN
      [] OTHER -> Float(HALF)

\* Mutant of ClampPosition: the upper clamp is missing.
ClampPosition_no_upper(pos) == PyMax(Float(0), pos)

\* Mutant of ClampPosition: clamps to the lower half of the track.
ClampPosition_half(pos) == PyMax(Float(0), PyMin(Float(HALF), pos))

\* pos = max(0.0, min(1.0, pos))
ClampPosition(pos) == PyMax(Float(0), PyMin(Float(ONE), pos))

\* pointer_x = bar_x + bar_width * pos
PointerX(bar_x, bar_width, pos) == bar_x + (bar_width * pos.v) \div UNIT

(***************************************************************************)
(* The line chart.  Samples are whole multiples of the epsilon 1e-6.       *)
(***************************************************************************)
Samples == [num : {TRUE}, v : 0..MaxVal] \cup {[num |-> FALSE, v |-> 0]}

HistoryChoices ==
    [kind : {"none", "other"}, pts : {<<>>}]
    \cup [kind : {"list"}, pts : UNION {[1..n -> Samples] : n \in 0..MaxHist}]

\* Mutant of ChartWanted: a single point is enough.
ChartWanted_one_point(h) == h.kind = "list" /\ Len(h.pts) > 0

\* history_points and isinstance(history_points, (list, tuple)) and len(...) > 1
ChartWanted(h) == h.kind = "list" /\ Len(h.pts) > 1

\* try: values = [float(v) for v in history_points]  except: values = []
ChartValues(h) ==
    IF \A i \in 1..Len(h.pts) : h.pts[i].num
    THEN [i \in 1..Len(h.pts) |-> h.pts[i].v]
    ELSE <<>>

SeqMin(vs) == CHOOSE m \in {vs[i] : i \in 1..Len(vs)} : \A i \in 1..Len(vs) : m <= vs[i]
SeqMax(vs) == CHOOSE m \in {vs[i] : i \in 1..Len(vs)} : \A i \in 1..Len(vs) : m >= vs[i]

\* Mutant of ChartSpan: no epsilon.
ChartSpan_no_epsilon(vs) == SeqMax(vs) - SeqMin(vs)

\* span = max(max_val - min_val, 1e-6)
ChartSpan(vs) == Max(SeqMax(vs) - SeqMin(vs), EPSILON)

\* Mutant of ChartStepDivisor: divides by the number of points.
ChartStepDivisor_len(vs) == Max(1, Len(vs))

\* step = chart_width / max(1, len(values) - 1)
ChartStepDivisor(vs) == Max(1, Len(vs) - 1)

\* Python's true division; a zero divisor raises ZeroDivisionError, which the
\* caller below turns into the exception leaving build_pdf.
Div(a, b) == IF b = 0 THEN 0 ELSE a \div b

ChartX(chart_x, chart_width, vs, idx) ==
    chart_x + Div(chart_width, ChartStepDivisor(vs)) * (idx - 1)

\* Mutant of ChartY: the minimum is not subtracted.
ChartY_no_min(chart_y, vs, idx) ==
    chart_y + mm(CHART_HEIGHT) - Div(vs[idx] * mm(CHART_HEIGHT), ChartSpan(vs))

\* Mutant of ChartY: the axis is not inverted.
ChartY_not_inverted(chart_y, vs, idx) ==
    chart_y + Div((vs[idx] - SeqMin(vs)) * mm(CHART_HEIGHT), ChartSpan(vs))

\* y = chart_y + chart_height - ((value - min_val) / span) * chart_height
ChartY(chart_y, vs, idx) ==
    chart_y + mm(CHART_HEIGHT)
        - Div((vs[idx] - SeqMin(vs)) * mm(CHART_HEIGHT), ChartSpan(vs))

\* The divisors the chart code divides by.
ChartDivisors(vs) == IF vs = <<>> THEN {} ELSE {ChartSpan(vs), ChartStepDivisor(vs)}

\* The pdf.line calls of the polyline loop: segment k joins point k to k + 1.
ChartSegments(p, chart_x, chart_y, chart_width, vs) ==
    [k \in 1..(Len(vs) - 1) |->
        LineOp(p, ChartX(chart_x, chart_width, vs, k), ChartY(chart_y, vs, k),
                  ChartX(chart_x, chart_width, vs, k + 1), ChartY(chart_y, vs, k + 1))]

(***************************************************************************)
(* build_pdf as a straight-line program: one step per statement group, in  *)
(* source order.                                                           *)
(***************************************************************************)
Step(k, t, h) == [k |-> k, t |-> t, h |-> h]

\* Mutant of Program: the line chart is drawn before the gauge.
Program_chart_first ==
    << Step("start", "", 0), Step("title", "", 0), Step("subtitle", "", 0),
       Step("header", "", 0), Step("badges", "", 0), Step("columns", "", 0),
       Step("heading", "Price snapshot", 0),
       Step("metric", "Share price", 0),
       Step("metric", "52-week high", 0),
       Step("metric", "52-week low", 0),
       Step("chart", "", 0), Step("gauge", "", 0),
       Step("ln", "", 3),
       Step("heading", "Market behavior", 0),
       Step("metric", "Beta", 0),
       Step("metric", "52-week change", 0),
       Step("metric", "Volume", 0),
       Step("ln", "", 3),
       Step("heading", "Fundamentals snapshot", 0),
       Step("subheading", "Valuation metrics", 0),
       Step("metric", "P/E ratio", 0), Step("metric", "EPS", 0),
       Step("metric", "PEG ratio", 0), Step("metric", "Dividend yield", 0),
       Step("metric", "Market cap", 0),
       Step("ln", "", 2),
       Step("subheading", "Business quality metrics", 0),
       Step("metric", "Revenue", 0), Step("metric", "Revenue growth YoY", 0),
       Step("metric", "Operating margin", 0), Step("metric", "Free cash flow", 0),
       Step("metric", "Debt to equity", 0),
       Step("left_bottom", "", 0),
       Step("right_title", "", 0), Step("right_body", "", 0),
       Step("sync", "", 0),
       Step("footer", "", 0), Step("disclaimer", "", 0),
       Step("output", "", 0) >>

\* Lines 167-358 of build_pdf, in source order.
Program ==
    << Step("start", "", 0), Step("title", "", 0), Step("subtitle", "", 0),
       Step("header", "", 0), Step("badges", "", 0), Step("columns", "", 0),
       Step("heading", "Price snapshot", 0),
       Step("metric", "Share price", 0),
       Step("metric", "52-week high", 0),
       Step("metric", "52-week low", 0),
       Step("gauge", "", 0), Step("chart", "", 0),
       Step("ln", "", 3),
       Step("heading", "Market behavior", 0),
       Step("metric", "Beta", 0),
       Step("metric", "52-week change", 0),
       Step("metric", "Volume", 0),
       Step("ln", "", 3),
       Step("heading", "Fundamentals snapshot", 0),
       Step("subheading", "Valuation metrics", 0),
       Step("metric", "P/E ratio", 0), Step("metric", "EPS", 0),
       Step("metric", "PEG ratio", 0), Step("metric", "Dividend yield", 0),
       Step("metric", "Market cap", 0),
       Step("ln", "", 2),
       Step("subheading", "Business quality metrics", 0),
       Step("metric", "Revenue", 0), Step("metric", "Revenue growth YoY", 0),
       Step("metric", "Operating margin", 0), Step("metric", "Free cash flow", 0),
       Step("metric", "Debt to equity", 0),
       Step("left_bottom", "", 0),
       Step("right_title", "", 0), Step("right_body", "", 0),
       Step("sync", "", 0),
       Step("footer", "", 0), Step("disclaimer", "", 0),
       Step("output", "", 0) >>

\* The narrative text of the layout runs (SpecText ranges over all strings).
NarrativeSample == <<STAR, STAR, 97, EM_DASH, STAR, 8364, STAR>>

\* The labels of the write_metric calls, in call order.
MetricLabels == {Program[i].t : i \in {j \in 1..Len(Program) : Program[j].k = "metric"}}

\* candidate_fonts, by file name
CandidateFonts == <<"AppFont.ttf", "Arial Unicode.ttf">>

VARIABLES
    text_in,       \* the string handed to the sanitizer / the narrative text
    text_uni,      \* unicode_enabled as pdf_safe reads it
    passes,        \* passes[k] = pdf_safe applied k times to text_in
    cleaned_text,  \* build_pdf's cleaned_text, once computed
    written,       \* texts handed to multi_cell by write_right_block
    line_endings,  \* pdf_safe of text_in under each line-ending encoding
    text_pc,
    FPDF_available,     \* module level: FPDF is not None
    UNICODE_FONT_PATH,  \* module level: "None" or the first existing candidate
    info,               \* argument of build_pdf: the context dict
    insights_text,      \* argument of build_pdf, and the lines it wraps into
    pc,                 \* index of the next step of Program
    result,             \* "running", "none" (returned None), "bytes", "raised"
    unicode_enabled,    \* local of build_pdf
    font_family,        \* local of build_pdf
    pdf,                \* the FPDF object
    start_y,            \* local of build_pdf
    left_bottom,        \* local of build_pdf
    right_bottom,       \* local of build_pdf
    doc,                \* elements drawn so far, in order
    ops,                \* drawing calls of the last step, with their geometry
    divisors,           \* every divisor build_pdf has divided by
    safe_modes,         \* the modes pdf_safe has run under
    col_extent,         \* lowest point of column content on its latest page
    controls,           \* _render_pdf_controls: "calling", "done", "raised"
    widgets,            \* the widgets _render_pdf_controls has shown
    font_load,          \* how loading the font file went in this call
    trace,              \* every drawing call of this build_pdf call, in order
    calls,              \* number of build_pdf calls completed before this one
    log,                \* inputs and outcome of every completed call
    disclaimer_lines,   \* lines the fixed disclaimer wraps into under each font
                        \* family of the host (0 until it is first laid out)
    resolver,           \* one call of ticker_service.resolve_stock_and_info
    fund,               \* one call of portfolio_composition.fetch_portfolio_composition
    app                 \* app.py: st.session_state and the script run under way

textvars == <<text_in, text_uni, passes, cleaned_text, written, line_endings, text_pc>>

pdfvars ==
    <<FPDF_available, UNICODE_FONT_PATH, info, insights_text, pc, result,
      unicode_enabled, font_family, pdf, start_y, left_bottom, right_bottom,
      doc, ops, divisors, safe_modes, col_extent, controls, widgets,
      font_load, trace, calls, log, disclaimer_lines>>

svcvars == <<resolver, fund, app>>

vars == <<textvars, pdfvars, svcvars>>

\* PDF_SUPPORTED = FPDF is not None
PDF_SUPPORTED == FPDF_available

\* PDF_SUPPORTS_UNICODE = UNICODE_FONT_PATH is not None
PDF_SUPPORTS_UNICODE == UNICODE_FONT_PATH # "None"

\* The module-level font search: the first existing candidate wins, and no
\* search is made without FPDF.
FontPathFor(supported, existing) ==
    IF ~supported \/ \A i \in 1..Len(CandidateFonts) : CandidateFonts[i] \notin existing
    THEN "None"
    ELSE CandidateFonts[CHOOSE i \in 1..Len(CandidateFonts) :
                            /\ CandidateFonts[i] \in existing
                            /\ \A j \in 1..(i - 1) : CandidateFonts[j] \notin existing]

\* State of a build_pdf call that has not started.
CallEntry ==
    /\ pc = 1
    /\ result = "running"
    /\ unicode_enabled = FALSE
    /\ font_family = ""
    /\ pdf = NoCanvas
    /\ start_y = 0
    /\ left_bottom = 0
    /\ right_bottom = 0
    /\ doc = <<>>
    /\ ops = <<>>
    /\ divisors = {}
    /\ safe_modes = {}
    /\ col_extent = [page |-> 0, y |-> 0]
    /\ controls = "calling"
    /\ widgets = {}
    /\ font_load = "not_called"
    /\ trace = <<>>
    /\ calls = 0
    /\ log = {}
    /\ disclaimer_lines = [f \in {"Arial", "AppFont"} |-> 0]

TextIdle ==
    /\ text_in = <<>>
    /\ text_uni = FALSE
    /\ passes = <<>>
    /\ cleaned_text = <<>>
    /\ written = <<>>
    /\ line_endings = <<>>
    /\ text_pc = "idle"

\* The Python types of the optional entries when they are what
\* build_pdf_context supplies: a str, a list of str, a dict.
WellTyped == [header_line |-> "str", badge_lines |-> "list", slider |-> "dict"]

\* The context dict with every optional entry absent.
EmptyInfo ==
    [types |-> WellTyped,
     header_line |-> 0, badge_lines |-> 0, long_metric |-> "",
     slider |-> [present |-> FALSE, position |-> [kind |-> "missing", v |-> 0]],
     history_points |-> [kind |-> "none", pts |-> <<>>]]

\* No call of the ticker services is under way.
ServicesIdle ==
    /\ resolver = [pc |-> "idle"]
    /\ fund = [pc |-> "idle"]
    /\ app = [pc |-> "off"]

PdfIdle ==
    /\ FPDF_available = FALSE
    /\ UNICODE_FONT_PATH = "None"
    /\ info = EmptyInfo
    /\ insights_text = [txt |-> <<>>, lines |-> 1]
    /\ CallEntry

(***************************************************************************)
(* The sanitizer on its own: pdf_safe applied to any string, and the path  *)
(* of the narrative text through lines 329-330.                            *)
(***************************************************************************)
InitText ==
    /\ text_in \in Strings
    /\ text_uni \in BOOLEAN
    /\ passes = <<>>
    /\ cleaned_text = <<>>
    /\ written = <<>>
    /\ line_endings = <<>>
    /\ text_pc = "input"
    /\ PdfIdle
    /\ ServicesIdle

\* One call pdf_safe(x) on the previous result (on the input, the first time).
ApplyPdfSafe ==
    /\ text_pc = "input"
    /\ Len(passes) < MaxPasses
    /\ passes' = Append(passes,
                        pdf_safe(IF passes = <<>> THEN text_in ELSE passes[Len(passes)],
                                 text_uni))
    /\ UNCHANGED <<text_in, text_uni, cleaned_text, written, line_endings, text_pc,
                   pdfvars, svcvars>>

\* utils.py line 329
CleanNarrative ==
    /\ text_pc = "input"
    /\ cleaned_text' = CleanedText(text_in, text_uni)
    /\ text_pc' = "cleaned"
    /\ UNCHANGED <<text_in, text_uni, passes, written, line_endings, pdfvars, svcvars>>

\* utils.py line 330 -> 320
WriteNarrative ==
    /\ text_pc = "cleaned"
    /\ written' = Append(written, RightBlockText(cleaned_text, text_uni))
    /\ text_pc' = "written"
    /\ UNCHANGED <<text_in, text_uni, passes, cleaned_text, line_endings, pdfvars, svcvars>>

\* A text whose lines end in LF, as a file with CRLF or lone-CR line endings
\* holds it.
EncodeLineEndings(s, ending) == Replace(s, <<LF>>, ending)

\* pdf_safe(x) for the three encodings x of one text (text_in, which holds no
\* carriage return, is its LF form).
ApplyToEncodings ==
    /\ text_pc = "input"
    /\ passes = <<>>
    /\ Count(text_in, {CR}) = 0
    /\ line_endings' =
           <<[lf |-> pdf_safe(text_in, text_uni),
              crlf |-> pdf_safe(EncodeLineEndings(text_in, <<CR, LF>>), text_uni),
              cr |-> pdf_safe(EncodeLineEndings(text_in, <<CR>>), text_uni)]>>
    /\ text_pc' = "encoded"
    /\ UNCHANGED <<text_in, text_uni, passes, cleaned_text, written, pdfvars, svcvars>>

NextText == ApplyPdfSafe \/ CleanNarrative \/ WriteNarrative \/ ApplyToEncodings

SpecText == InitText /\ [][NextText]_vars

(***************************************************************************)
(* Claims about the sanitizer (checked under SpecText).                    *)
(***************************************************************************)

\* C1: pdf_safe is idempotent in both font modes:
\* pdf_safe(pdf_safe(x)) = pdf_safe(x) for every input string x.
C1_Idempotent == Len(passes) >= 2 => passes[2] = passes[1]

\* C2: in both font modes no output of pdf_safe contains any of the
\* typographic characters it is designed to remove (em dash, en dash, bullet,
\* single and double curly quotes).
C2_NoTypographicInOutput ==
    /\ \A k \in 1..Len(passes) : Count(passes[k], Typographic) = 0
    /\ text_pc # "input" => Count(cleaned_text, Typographic) = 0
    /\ \A k \in 1..Len(written) : Count(written[k], Typographic) = 0

C2_Witness ==
    /\ Len(passes) >= 1
    /\ Count(text_in, Typographic) = Len(text_in)
    /\ Len(text_in) = MaxLen

\* C3: the narrative text written into the document has a plain hyphen in
\* place of each em dash of the narrative (no em dash is left, and every
\* hyphen-like character of the input is a hyphen of the output) and contains
\* no "**" marker, in unicode-capable mode and in fallback mode alike; this
\* holds of every narrative, so of every one that contains both.
C3_NarrativeSanitized ==
    \A k \in 1..Len(written) :
        /\ Count(written[k], {EM_DASH}) = 0
        /\ Count(written[k], {HYPHEN}) =
               Count(text_in, {HYPHEN, EM_DASH, EN_DASH, BULLET})
        /\ ~Contains(written[k], <<STAR, STAR>>)

C3_Witness ==
    /\ text_pc = "written"
    /\ ~text_uni
    /\ Contains(text_in, <<EM_DASH>>)
    /\ Contains(text_in, <<STAR, STAR>>)
    /\ Contains(written[1], <<HYPHEN>>)

(***************************************************************************)
(* build_pdf, step by step.  A caller-supplied text is represented by the  *)
(* number of lines multi_cell wraps it into.                               *)
(***************************************************************************)
\* The module-level state an import of utils.py can leave behind.
InitModule ==
    /\ FPDF_available \in BOOLEAN
    /\ \E existing \in SUBSET {CandidateFonts[i] : i \in 1..Len(CandidateFonts)} :
           UNICODE_FONT_PATH = FontPathFor(FPDF_available, existing)

Num(v) == [num |-> TRUE, v |-> v]
NoSlider == [present |-> FALSE, position |-> [kind |-> "missing", v |-> 0]]
Slider(position) == [present |-> TRUE, position |-> position]
NoHistory == [kind |-> "none", pts |-> <<>>]

\* Contexts that vary the heights of the two columns.
LayoutInfos ==
    [types : {WellTyped}, header_line : 0..MaxWrap, badge_lines : 0..MaxBadges,
     long_metric : {"", "Share price", "Debt to equity"},
     slider : {NoSlider, Slider([kind |-> "num", v |-> HALF])},
     history_points : {NoHistory, [kind |-> "list", pts |-> <<Num(0), Num(1)>>]}]

\* Contexts that vary the gauge.
GaugeInfos ==
    [types : {WellTyped}, header_line : 0..MaxWrap, badge_lines : {0}, long_metric : {""},
     slider : {NoSlider} \cup {Slider(q) : q \in PositionChoices},
     history_points : {NoHistory}]

\* Contexts that vary the price history.
ChartInfos ==
    [types : {WellTyped}, header_line : {0}, badge_lines : {0}, long_metric : {""},
     slider : {NoSlider}, history_points : HistoryChoices]

InitCall(infos, lines) ==
    /\ InitModule
    /\ info \in infos
    /\ insights_text \in [txt : {NarrativeSample}, lines : lines]
    /\ CallEntry
    /\ TextIdle
    /\ ServicesIdle

\* Contexts whose optional entries are missing or of another type than
\* build_pdf_context supplies: a truthy header_line that is no str, truthy
\* badge_lines that are an int or a list holding a non-str, a truthy slider
\* that is no dict, a gauge position that is no number, history points that
\* are no list or hold a non-number.
MalformedInfos ==
    [types : [header_line : {"str", "other"},
              badge_lines : {"list", "int", "list_of_other"},
              slider : {"dict", "other"}],
     header_line : {0, 1}, badge_lines : {0, 1}, long_metric : {""},
     slider : {NoSlider, Slider([kind |-> "bad", v |-> 0])},
     history_points : {NoHistory, [kind |-> "other", pts |-> <<>>],
                       [kind |-> "list", pts |-> <<Num(0), Num(1)>>],
                       [kind |-> "list", pts |-> <<Num(0), [num |-> FALSE, v |-> 0]>>]}]

InitMalformed == InitCall(MalformedInfos, {1})
InitPdf == InitCall(LayoutInfos, (1..MaxWrap) \cup {LongLines, 2 * LongLines})
InitGauge == InitCall(GaugeInfos, {1})
InitChart == InitCall(ChartInfos, {1})

At(k) == result = "running" /\ pc <= Len(Program) /\ Program[pc].k = k

left_x == mm(PAGE_MARGIN)
left_width == mm(LEFT_WIDTH)
right_x == left_x + left_width + mm(GAP)
right_width == mm(PAGE_W) - mm(PAGE_MARGIN) - right_x

RECURSIVE ExtentOf(_, _)
ExtentOf(e, os) ==
    IF os = <<>> THEN e
    ELSE LET o == Head(os)
             e1 == CASE o.op = "text" -> Extend(e, o.page2, o.y2)
                     [] o.op = "rect" -> Extend(e, o.page, o.y + o.h)
                     [] OTHER -> Extend(e, o.page, Max(o.y1, o.y2))
         IN  ExtentOf(e1, Tail(os))

\* The step ends normally: the canvas is q, the drawing calls made are os
\* (column content when col), and control moves to the next step.
Emit(q, os, col) ==
    /\ pdf' = q
    /\ ops' = os
    /\ doc' = doc \o [i \in 1..Len(os) |-> os[i].el]
    /\ safe_modes' = IF \E i \in 1..Len(os) : os[i].op = "text"
                     THEN safe_modes \cup {unicode_enabled} ELSE safe_modes
    /\ col_extent' = IF col THEN ExtentOf(col_extent, os) ELSE col_extent
    /\ trace' = trace \o os
    /\ pc' = pc + 1
    /\ UNCHANGED font_load

\* An exception leaves build_pdf: nothing is returned.
Raise ==
    /\ result' = "raised"
    /\ ops' = <<>>
    /\ UNCHANGED <<pc, pdf, doc, safe_modes, col_extent, divisors,
                   unicode_enabled, font_family, start_y, left_bottom,
                   right_bottom, font_load, trace>>

Inputs ==
    UNCHANGED <<textvars, svcvars, FPDF_available, UNICODE_FONT_PATH, info,
                insights_text, controls, widgets, calls, log>>

Frame == Inputs /\ UNCHANGED disclaimer_lines

Rest == UNCHANGED <<result, unicode_enabled, font_family, start_y,
                    left_bottom, right_bottom, divisors>>

\* k one-line texts written one below the other by multi_cell(w, h, ...).
RECURSIVE WriteBlocks(_, _, _, _, _, _)
WriteBlocks(p, el, w, h, k, uni) ==
    IF k = 0 THEN [pdf |-> p, ops |-> <<>>]
    ELSE LET r == WriteBlocks(MultiCell(p, h, 1), el, w, h, k - 1, uni)
         IN  [pdf |-> r.pdf, ops |-> <<TextOp(p, el, w, h, 1, uni)>> \o r.ops]

\* pdf_safe calls text.replace: an AttributeError for anything but a str.
PdfSafeAccepts(type) == type = "str"

\* for badge in badge_lines: pdf_safe(badge) -- a TypeError for an int, an
\* AttributeError for an item that is no str.
BadgesAccepted(type) == type = "list"

\* slider.get(...) at line 216, outside the try: an AttributeError for
\* anything but a dict.
HasGet(type) == type = "dict"

\* Mutant of EncoderMissing: the check is never taken.
EncoderMissing_never == FALSE

\* if FPDF is None: return None
EncoderMissing == ~FPDF_available

\* Mutant of ModeAfter: a failing add_font leaves the mode as it was.
ModeAfter_no_except(wanted, add_font) == wanted

\* unicode_enabled after lines 159-165: `except Exception: unicode_enabled =
\* False` when either add_font raises.
ModeAfter(wanted, add_font) == wanted /\ add_font = "ok"

\* Mutant of FPDF_new: the canvas of the previous call is used again.
FPDF_reused == IF pdf.page = 0 THEN NewCanvas ELSE pdf

\* pdf = FPDF(); set_auto_page_break; add_page (lines 154-156): a new object
\* in every call.
FPDF_new == NewCanvas

\* Lines 127-165: the encoder check, the mode, the canvas and the font.
Start ==
    /\ At("start")
    /\ Frame
    /\ IF EncoderMissing
       THEN /\ result' = "none"
            /\ UNCHANGED <<pc, unicode_enabled, font_family, pdf, start_y,
                           left_bottom, right_bottom, doc, ops, divisors,
                           safe_modes, col_extent, font_load, trace>>
       ELSE LET wanted == PDF_SUPPORTS_UNICODE /\ UNICODE_FONT_PATH # "None" IN
            \E add_font \in IF wanted THEN {"ok", "first_raises", "second_raises"}
                            ELSE {"not_called"} :
                /\ unicode_enabled' = ModeAfter(wanted, add_font)
                /\ font_family' = IF add_font = "ok" THEN "AppFont" ELSE "Arial"
                /\ pdf' = CASE add_font = "ok" ->
                                   AddFont(AddFont(FPDF_new, "AppFont", ""), "AppFont", "B")
                            [] add_font = "second_raises" ->
                                   AddFont(FPDF_new, "AppFont", "")
                            [] OTHER -> FPDF_new
                /\ font_load' = add_font
                /\ pc' = pc + 1
                /\ ops' = <<>>
                /\ UNCHANGED <<result, start_y, left_bottom, right_bottom, doc,
                               divisors, safe_modes, col_extent, trace>>

\* Lines 167-168
Title ==
    /\ At("title")
    /\ Frame
    /\ IF ~FontDefined(pdf, font_family, "B") THEN Raise
       ELSE LET p1 == SetFont(pdf, font_family, "B", 16) IN
            /\ Emit(MultiCell(p1, mm(10), 1),
                    <<TextOp(p1, "title", 0, mm(10), 1, unicode_enabled)>>, FALSE)
            /\ Rest

\* Lines 170-172
Subtitle ==
    /\ At("subtitle")
    /\ Frame
    /\ IF ~FontDefined(pdf, font_family, "") THEN Raise
       ELSE LET p1 == Ln(SetFont(pdf, font_family, "", 11), mm(3)) IN
            /\ Emit(MultiCell(p1, mm(6), 1),
                    <<TextOp(p1, "subtitle", 0, mm(6), 1, unicode_enabled)>>, FALSE)
            /\ Rest

\* Lines 174-178
Header ==
    /\ At("header")
    /\ Frame
    /\ IF info.header_line = 0 THEN Emit(pdf, <<>>, FALSE) /\ Rest
       ELSE IF ~FontDefined(pdf, font_family, "") THEN Raise
       ELSE IF ~PdfSafeAccepts(info.types.header_line) THEN Raise
       ELSE LET p1 == Ln(SetFont(pdf, font_family, "", 11), mm(1)) IN
            /\ Emit(MultiCell(p1, mm(6), info.header_line),
                    <<TextOp(p1, "header", 0, mm(6), info.header_line,
                             unicode_enabled)>>, FALSE)
            /\ Rest

\* Lines 180-186
Badges ==
    /\ At("badges")
    /\ Frame
    /\ IF info.badge_lines = 0 THEN Emit(pdf, <<>>, FALSE) /\ Rest
       ELSE IF ~FontDefined(pdf, font_family, "") THEN Raise
       ELSE IF ~BadgesAccepted(info.types.badge_lines) THEN Raise
       ELSE LET p1 == SetFont([pdf EXCEPT !.text_color = <<44, 123, 229>>],
                              font_family, "", 10)
                r == WriteBlocks(p1, "badge", 0, mm(5), info.badge_lines,
                                 unicode_enabled)
            IN  /\ Emit([r.pdf EXCEPT !.text_color = <<0, 0, 0>>], r.ops, FALSE)
                /\ Rest

\* Lines 189-198
Columns ==
    /\ At("columns")
    /\ Frame
    /\ LET p1 == Ln(pdf, mm(3)) IN
       /\ start_y' = p1.y
       /\ Emit(SetXY(p1, left_x, p1.y), <<>>, FALSE)
    /\ UNCHANGED <<result, unicode_enabled, font_family, left_bottom,
                   right_bottom, divisors>>

\* Mutant of WriteHeading: the regular font is not selected after the title.
WriteHeading_stay_bold ==
    /\ At("heading")
    /\ Frame
    /\ IF ~FontDefined(pdf, font_family, "B") \/ ~FontDefined(pdf, font_family, "")
       THEN Raise
       ELSE LET p1 == SetFont(pdf, font_family, "B", 12) IN
            /\ Emit(MultiCell(p1, mm(7), 1),
                    <<TextOp(p1, "heading", left_width, mm(7), 1, unicode_enabled)>>,
                    TRUE)
            /\ Rest

\* write_heading(title), lines 200-203
WriteHeading ==
    /\ At("heading")
    /\ Frame
    /\ IF ~FontDefined(pdf, font_family, "B") \/ ~FontDefined(pdf, font_family, "")
       THEN Raise
       ELSE LET p1 == SetFont(pdf, font_family, "B", 12) IN
            /\ Emit(SetFont(MultiCell(p1, mm(7), 1), font_family, "", 10),
                    <<TextOp(p1, "heading", left_width, mm(7), 1, unicode_enabled)>>,
                    TRUE)
            /\ Rest

\* The lines f"{label}: {value}" wraps into.
MetricLines(label) == IF label = info.long_metric THEN LongLines ELSE 1

\* write_metric(label, value_key), lines 205-207
WriteMetric ==
    /\ At("metric")
    /\ Frame
    /\ LET n == MetricLines(Program[pc].t) IN
       Emit(MultiCell(pdf, mm(6), n),
            <<TextOp(pdf, "metric", left_width, mm(6), n, unicode_enabled)>>, TRUE)
    /\ Rest

\* pdf.ln(3) / pdf.ln(2) between the blocks of the left column
LnStep ==
    /\ At("ln")
    /\ Frame
    /\ Emit(Ln(pdf, mm(Program[pc].h)), <<>>, TRUE)
    /\ Rest

\* Lines 284-286 and 297-299
SubHeading ==
    /\ At("subheading")
    /\ Frame
    /\ IF ~FontDefined(pdf, font_family, "B") \/ ~FontDefined(pdf, font_family, "")
       THEN Raise
       ELSE LET p1 == SetFont(pdf, font_family, "B", 11) IN
            /\ Emit(SetFont(MultiCell(p1, mm(6), 1), font_family, "", 10),
                    <<TextOp(p1, "subheading", left_width, mm(6), 1, unicode_enabled)>>,
                    TRUE)
            /\ Rest

\* Lines 214-242: the 52-week range gauge.
Gauge ==
    /\ At("gauge")
    /\ Frame
    /\ IF ~info.slider.present THEN Emit(pdf, <<>>, TRUE) /\ Rest
       ELSE IF ~HasGet(info.types.slider) THEN Raise
       ELSE IF ~FontDefined(pdf, font_family, "") THEN Raise
       ELSE LET pos == ClampPosition(SliderPosition(info.slider.position))
                p1 == SetX(SetFont(Ln(pdf, mm(1)), font_family, "", 9), left_x)
                p2 == MultiCell(p1, mm(5), 1)
                bar_x == left_x
                bar_y == p2.y + mm(1)
                bar_height == mm(BAR_HEIGHT)
                bar_width == left_width
                p3 == [p2 EXCEPT !.draw_color = <<220, 220, 220>>,
                                 !.fill_color = <<240, 240, 240>>]
                pointer_x == PointerX(bar_x, bar_width, pos)
                p4 == [p3 EXCEPT !.fill_color = <<44, 123, 229>>]
                p5 == SetFont(SetY(p4, bar_y + bar_height + mm(3)), font_family, "", 9)
                p6 == MultiCell(p5, mm(5), 1)
            IN  /\ Emit([p6 EXCEPT !.draw_color = <<0, 0, 0>>],
                        << TextOp(p1, "gauge_label", left_width, mm(5), 1, unicode_enabled),
                           RectOp(p3, "gauge_track", bar_x, bar_y, bar_width, bar_height, "F"),
                           RectOp(p4, "gauge_marker", pointer_x - (3 * UNIT) \div 2,
                                  bar_y - mm(1), mm(3), bar_height + mm(2), "F"),
                           TextOp(p5, "gauge_price", left_width, mm(5), 1, unicode_enabled) >>,
                        TRUE)
                /\ Rest

\* Lines 244-274: the price-history line chart.
Chart ==
    /\ At("chart")
    /\ Frame
    /\ IF ~ChartWanted(info.history_points) THEN Emit(pdf, <<>>, TRUE) /\ Rest
       ELSE IF ~FontDefined(pdf, font_family, "B") THEN Raise
       ELSE LET p1 == SetFont(Ln(pdf, mm(3)), font_family, "B", 11)
                p2 == MultiCell(p1, mm(6), 1)
                chart_x == left_x
                chart_y == p2.y + mm(1)
                chart_height == mm(CHART_HEIGHT)
                chart_width == left_width
                p3 == [p2 EXCEPT !.draw_color = <<220, 220, 220>>]
                values == ChartValues(info.history_points)
                p4 == [p3 EXCEPT !.draw_color = <<44, 123, 229>>]
                p5 == IF values = <<>> THEN p3
                      ELSE [p4 EXCEPT !.draw_color = <<0, 0, 0>>]
                segments == IF values = <<>> THEN <<>>
                            ELSE ChartSegments(p4, chart_x, chart_y, chart_width, values)
            IN  IF 0 \in ChartDivisors(values)
                THEN /\ result' = "raised"
                     /\ divisors' = divisors \cup ChartDivisors(values)
                     /\ ops' = <<>>
                     /\ UNCHANGED <<pc, pdf, doc, safe_modes, col_extent,
                                    unicode_enabled, font_family, start_y,
                                    left_bottom, right_bottom, font_load, trace>>
                ELSE /\ Emit(SetY(p5, chart_y + chart_height + mm(4)),
                             << TextOp(p1, "chart_heading", left_width, mm(6), 1,
                                       unicode_enabled),
                                RectOp(p3, "chart_frame", chart_x, chart_y,
                                       chart_width, chart_height, "") >>
                             \o segments,
                             TRUE)
                     /\ divisors' = divisors \cup ChartDivisors(values)
                     /\ UNCHANGED <<result, unicode_enabled, font_family, start_y,
                                    left_bottom, right_bottom>>

\* Line 309
LeftBottom ==
    /\ At("left_bottom")
    /\ Frame
    /\ left_bottom' = pdf.y
    /\ Emit(pdf, <<>>, FALSE)
    /\ UNCHANGED <<result, unicode_enabled, font_family, start_y, right_bottom,
                   divisors>>

\* Mutant of RightBlock: the left margin is not put back.
RightBlock_no_restore(p, style, size, line_height, n) ==
    LET p1 == SetFont(p, font_family, style, size)
        p2 == SetX(SetLeftMargin(p1, right_x), right_x)
    IN  [start |-> p2, pdf |-> MultiCell(p2, line_height, n)]

\* write_right_block(text, font_style, line_height), lines 312-321, for a
\* text that wraps into n lines.
RightBlock(p, style, size, line_height, n) ==
    LET p1 == SetFont(p, font_family, style, size)
        prev_margin == p1.l_margin
        p2 == SetX(SetLeftMargin(p1, right_x), right_x)
    IN  [start |-> p2,
         pdf |-> SetLeftMargin(MultiCell(p2, line_height, n), prev_margin)]

\* Lines 323-328
RightTitle ==
    /\ At("right_title")
    /\ Frame
    /\ IF ~FontDefined(pdf, font_family, "B") THEN Raise
       ELSE LET r == RightBlock(SetXY(pdf, right_x, start_y), "B", 12, mm(7), 1) IN
            /\ Emit(r.pdf,
                    <<TextOp(r.start, "right_title", right_width, mm(7), 1,
                             unicode_enabled)>>, TRUE)
            /\ Rest

\* Lines 329-330
RightBody ==
    /\ At("right_body")
    /\ Frame
    /\ IF ~FontDefined(pdf, font_family, "") THEN Raise
       ELSE LET cleaned == CleanedText(insights_text.txt, unicode_enabled)
                n == insights_text.lines
                r == RightBlock(pdf, "", 10, mm(6), n)
            IN  /\ Emit(r.pdf,
                        <<[TextOp(r.start, "right_body", right_width, mm(6), n,
                                  unicode_enabled)
                             EXCEPT !.txt = RightBlockText(cleaned, unicode_enabled)]>>,
                        TRUE)
                /\ Rest

\* Mutant of SyncY: only the left column is considered.
SyncY_left_only(left, right) == left + mm(SYNC_GAP)

\* Mutant of SyncY: only the right column is considered.
SyncY_right_only(left, right) == right + mm(SYNC_GAP)

\* max(left_bottom, right_bottom) + 4
SyncY(left, right) == Max(left, right) + mm(SYNC_GAP)

\* Lines 332-333
Sync ==
    /\ At("sync")
    /\ Frame
    /\ right_bottom' = pdf.y
    /\ Emit(SetY(pdf, SyncY(left_bottom, pdf.y)), <<>>, FALSE)
    /\ UNCHANGED <<result, unicode_enabled, font_family, start_y, left_bottom,
                   divisors>>

\* Lines 335-343
Footer ==
    /\ At("footer")
    /\ Frame
    /\ IF ~FontDefined(pdf, font_family, "I") THEN Raise
       ELSE LET p1 == [SetFont(pdf, font_family, "I", 9)
                         EXCEPT !.text_color = <<120, 120, 120>>] IN
            /\ Emit(Ln(MultiCell(p1, mm(5), 1), mm(1)),
                    <<TextOp(p1, "footer", 0, mm(5), 1, unicode_enabled)>>, FALSE)
            /\ Rest

\* Lines 344-351; the fixed disclaimer wraps into a few lines.
Disclaimer ==
    /\ At("disclaimer")
    /\ Inputs
    /\ IF ~FontDefined(pdf, font_family, "") THEN Raise /\ UNCHANGED disclaimer_lines
       ELSE LET p1 == SetFont(pdf, font_family, "", 8) IN
            \E n \in IF disclaimer_lines[font_family] = 0 THEN 1..MaxWrap
                      ELSE {disclaimer_lines[font_family]} :
                /\ disclaimer_lines' = [disclaimer_lines EXCEPT ![font_family] = n]
                /\ Emit([MultiCell(p1, mm(4), n) EXCEPT !.text_color = <<0, 0, 0>>],
                        <<TextOp(p1, "disclaimer", 0, mm(4), n, unicode_enabled)>>, FALSE)
                /\ Rest

\* Lines 353-358
Output ==
    /\ At("output")
    /\ Frame
    /\ result' = "bytes"
    /\ Emit(pdf, <<>>, FALSE)
    /\ UNCHANGED <<unicode_enabled, font_family, start_y, left_bottom,
                   right_bottom, divisors>>

\* pdf.output(dest="S") is the whole document, header included: never empty.
PdfBytesTruthy == result = "bytes"

\* Mutant of DownloadShown: the button is offered whatever build_pdf returned.
DownloadShown_always(pdf_bytes_truthy) == TRUE

\* app.py line 187: if pdf_bytes
DownloadShown(pdf_bytes_truthy) == pdf_bytes_truthy

\* app.py line 195: elif not PDF_SUPPORTED
InfoShown(pdf_bytes_truthy) == ~DownloadShown(pdf_bytes_truthy) /\ ~PDF_SUPPORTED

\* app.py lines 186-196, once build_pdf has returned.
RenderPdfControls ==
    /\ controls = "calling"
    /\ result \in {"none", "bytes"}
    /\ widgets' = (IF DownloadShown(PdfBytesTruthy) THEN {"download_button"} ELSE {})
                   \cup (IF InfoShown(PdfBytesTruthy) THEN {"info"} ELSE {})
    /\ controls' = "done"
    /\ UNCHANGED <<textvars, svcvars, FPDF_available, UNICODE_FONT_PATH, info,
                   insights_text, pc, result, unicode_enabled, font_family, pdf, start_y,
                   left_bottom, right_bottom, doc, ops, divisors, safe_modes,
                   col_extent, font_load, trace, calls, log, disclaimer_lines>>

\* app.py line 186: an exception of build_pdf is not caught here.
PdfControlsRaise ==
    /\ controls = "calling"
    /\ result = "raised"
    /\ controls' = "raised"
    /\ UNCHANGED <<textvars, svcvars, FPDF_available, UNICODE_FONT_PATH, info,
                   insights_text, pc, result, unicode_enabled, font_family, pdf, start_y,
                   left_bottom, right_bottom, doc, ops, divisors, safe_modes,
                   col_extent, widgets, font_load, trace, calls, log,
                   disclaimer_lines>>

\* The inputs of the current call (the context, the narrative, and what the
\* font file on disk did when loaded) and what the call produced.
Outcome ==
    [key |-> <<info, insights_text, font_load>>, result |-> result, trace |-> trace]

\* Contexts of the repeated calls: nothing optional, and everything.
CallInfos ==
    {EmptyInfo,
     [types |-> WellTyped, header_line |-> 1, badge_lines |-> 1, long_metric |-> "",
      slider |-> Slider([kind |-> "num", v |-> HALF]),
      history_points |-> [kind |-> "list", pts |-> <<Num(0), Num(1)>>]]}

InitCalls == InitCall(CallInfos, {1})

\* The caller is done with one report and builds the next (app.py line 186
\* runs on every rerun of the script).  The locals of the call that ended are
\* left as they were: the new call has to assign each before reading it.
CallAgain ==
    /\ controls # "calling"
    /\ calls + 1 < MaxCalls
    /\ calls' = calls + 1
    /\ log' = log \cup {Outcome}
    /\ info' \in CallInfos
    /\ insights_text' \in [txt : {NarrativeSample}, lines : {1}]
    /\ pc' = 1
    /\ result' = "running"
    /\ controls' = "calling"
    /\ widgets' = {}
    /\ font_load' = "not_called"
    /\ trace' = <<>>
    /\ doc' = <<>>
    /\ ops' = <<>>
    /\ divisors' = {}
    /\ safe_modes' = {}
    /\ col_extent' = [page |-> 0, y |-> 0]
    /\ UNCHANGED <<textvars, svcvars, FPDF_available, UNICODE_FONT_PATH,
                   unicode_enabled, font_family, pdf, start_y, left_bottom, right_bottom,
                   disclaimer_lines>>

Next ==
    \/ Start \/ Title \/ Subtitle \/ Header \/ Badges \/ Columns
    \/ WriteHeading \/ WriteMetric \/ LnStep \/ SubHeading
    \/ Gauge \/ Chart \/ LeftBottom \/ RightTitle \/ RightBody
    \/ Sync \/ Footer \/ Disclaimer \/ Output
    \/ RenderPdfControls \/ PdfControlsRaise

Spec == InitPdf /\ [][Next]_vars
SpecGauge == InitGauge /\ [][Next]_vars
SpecChart == InitChart /\ [][Next]_vars
SpecMalformed == InitMalformed /\ [][Next]_vars

NextCalls == Next \/ CallAgain
SpecCalls == InitCalls /\ [][NextCalls]_vars

(***************************************************************************)
(* Claims about the layout (Spec), the gauge (SpecGauge) and the line      *)
(* chart (SpecChart).                                                      *)
(***************************************************************************)
StepIndex(k) == CHOOSE i \in 1..Len(Program) : Program[i].k = k
OpsOf(el) == SelectSeq(ops, LAMBDA o : o.el = el)
Returned == result # "running"

\* C4: the Y cursor set for the shared trailing content (footer, disclaimer)
\* equals max(left_bottom, right_bottom) + 4 mm, hence is not above the final
\* Y of the left column nor that of the right column.
C4_TrailingCursor ==
    pc = StepIndex("footer") =>
        /\ pdf.y = (IF left_bottom >= right_bottom THEN left_bottom ELSE right_bottom)
                   + 4 * UNIT
        /\ pdf.y >= left_bottom
        /\ pdf.y >= right_bottom

C4_Witness ==
    /\ pc = StepIndex("footer")
    /\ result = "running"
    /\ right_bottom > left_bottom
    /\ info.slider.present

\* C5: the footer and the disclaimer never overlap column content: on the
\* page each is written on, its top is not above the lowest point column
\* content reaches on that page, whichever column grew more and also when
\* columns overflowed onto a new page.
C5_FooterBelowColumns ==
    \A i \in 1..Len(ops) :
        ops[i].el \in {"footer", "disclaimer"} =>
            \/ ops[i].page > col_extent.page
            \/ ops[i].page = col_extent.page /\ ops[i].y >= col_extent.y

C5_Witness ==
    /\ Len(OpsOf("footer")) = 1
    /\ OpsOf("footer")[1].page = col_extent.page
    /\ col_extent.page > 1
    /\ info.long_metric # ""
    /\ right_bottom > left_bottom

\* Twice the horizontal centre of a rectangle.
Centre2(r) == 2 * r.x + r.w

\* C6: for every gauge position supplied, also below 0, above 1 or not a
\* number, the horizontal centre of the marker rectangle lies within the
\* track: track_x <= centre <= track_x + track_width.
C6_MarkerWithinTrack ==
    Len(OpsOf("gauge_marker")) > 0 =>
        LET track == OpsOf("gauge_track")[1]
            marker == OpsOf("gauge_marker")[1]
        IN  /\ 2 * track.x <= Centre2(marker)
            /\ Centre2(marker) <= 2 * (track.x + track.w)

C6_Witness ==
    /\ Len(OpsOf("gauge_marker")) > 0
    /\ info.slider.position.kind = "num"
    /\ info.slider.position.v > ONE

\* clamp(position, 0, 1), in UNIT-ths
Clamp01(v) == IF v < 0 THEN 0 ELSE IF v > ONE THEN ONE ELSE v

\* C7: the track rectangle spans the full left-column width (110 mm from the
\* left margin) and, for every numeric position, the marker's horizontal
\* centre is track_x + track_width * clamp(position, 0, 1); for position 0.5
\* that is the midpoint of the track.
C7_MarkerCentre ==
    Len(OpsOf("gauge_marker")) > 0 =>
        LET track == OpsOf("gauge_track")[1]
            marker == OpsOf("gauge_marker")[1]
        IN  /\ track.x = PAGE_MARGIN * UNIT
            /\ track.w = LEFT_WIDTH * UNIT
            /\ info.slider.position.kind = "num" =>
                   Centre2(marker) * UNIT =
                       2 * (track.x * UNIT + track.w * Clamp01(info.slider.position.v))

C7_Witness ==
    /\ Len(OpsOf("gauge_marker")) > 0
    /\ info.slider.position = [kind |-> "num", v |-> HALF]
    /\ Centre2(OpsOf("gauge_marker")[1]) =
           2 * OpsOf("gauge_track")[1].x + OpsOf("gauge_track")[1].w

\* The history has fewer than 2 points, is empty or is absent.
SparseHistory == info.history_points.kind = "none" \/ Len(info.history_points.pts) < 2

ChartElements == {"chart_heading", "chart_frame", "chart_segment"}

\* The elements of a report without line chart, in drawing order.
RECURSIVE Repeat(_, _)
Repeat(x, k) == IF k = 0 THEN <<>> ELSE <<x>> \o Repeat(x, k - 1)

DocWithoutChart ==
    <<"title", "subtitle">>
    \o (IF info.header_line > 0 THEN <<"header">> ELSE <<>>)
    \o Repeat("badge", info.badge_lines)
    \o <<"heading", "metric", "metric", "metric">>
    \o (IF info.slider.present
        THEN <<"gauge_label", "gauge_track", "gauge_marker", "gauge_price">> ELSE <<>>)
    \o <<"heading", "metric", "metric", "metric", "heading", "subheading">>
    \o Repeat("metric", 5) \o <<"subheading">> \o Repeat("metric", 5)
    \o <<"right_title", "right_body", "footer", "disclaimer">>

\* C8: when the history is absent, empty or shorter than 2 points, build_pdf
\* draws no part of the line chart, divides by nothing, raises nothing and
\* still draws every other element of the document.
C8_SparseHistory ==
    (FPDF_available /\ SparseHistory) =>
        /\ \A i \in 1..Len(doc) : doc[i] \notin ChartElements
        /\ divisors = {}
        /\ result # "raised"
        /\ Returned => doc = DocWithoutChart

\* What C8 says apart from the exception of the italic footer font: holds.
C8_ChartOmitted ==
    (FPDF_available /\ SparseHistory) =>
        /\ \A i \in 1..Len(doc) : doc[i] \notin ChartElements
        /\ divisors = {}
        /\ result = "raised" => pc = StepIndex("footer") /\ unicode_enabled
        /\ result = "bytes" => doc = DocWithoutChart

\* The history is a list of at least 2 numbers that are all equal.
FlatHistory ==
    LET h == info.history_points IN
    /\ h.kind = "list"
    /\ Len(h.pts) >= 2
    /\ \A i \in 1..Len(h.pts) : h.pts[i].num /\ h.pts[i].v = h.pts[1].v

\* C9: for a history of length n >= 2 whose values are all equal the chart is
\* rendered without error: the span divided by is the epsilon and never 0,
\* exactly n - 1 segments are drawn and every point has the same Y.
C9_FlatSeries ==
    FlatHistory =>
        /\ ~(result = "raised" /\ pc = StepIndex("chart"))
        /\ 0 \notin divisors
        /\ pc > StepIndex("chart") =>
               /\ divisors = {EPSILON, Len(info.history_points.pts) - 1}
               /\ Len(SelectSeq(doc, LAMBDA e : e = "chart_segment"))
                      = Len(info.history_points.pts) - 1
        /\ pc = StepIndex("chart") + 1 =>
               /\ Len(OpsOf("chart_segment")) = Len(info.history_points.pts) - 1
               /\ \A i \in 1..Len(OpsOf("chart_segment")) :
                      /\ OpsOf("chart_segment")[i].y1 = OpsOf("chart_segment")[1].y1
                      /\ OpsOf("chart_segment")[i].y2 = OpsOf("chart_segment")[1].y1

C9_Witness ==
    /\ FlatHistory
    /\ Len(info.history_points.pts) = MaxHist
    /\ info.history_points.pts[1].v = MaxVal
    /\ pc = StepIndex("chart") + 1
    /\ Len(OpsOf("chart_segment")) = MaxHist - 1

\* C10: without the encoder (FPDF is None) build_pdf returns None for every
\* input, raises nothing, and runs no sanitizing or drawing step: no canvas
\* is built and nothing is written.
C10_NoEncoder ==
    ~FPDF_available =>
        /\ result \in {"running", "none"}
        /\ pc = 1
        /\ doc = <<>>
        /\ safe_modes = {}
        /\ pdf = NoCanvas

C10_Witness ==
    /\ ~FPDF_available
    /\ result = "none"
    /\ info.header_line > 0
    /\ info.history_points.kind = "list"

(***************************************************************************)
(* Claims about the caller of build_pdf and about malformed contexts.      *)
(***************************************************************************)

\* C11: _render_pdf_controls offers the download button only when build_pdf
\* returned non-empty bytes, shows the "install fpdf" message only when no
\* bytes were returned and the encoder is unsupported, never shows both, and
\* a missing encoder never leads to an exception.
C11_PdfControls ==
    /\ "download_button" \in widgets => result = "bytes"
    /\ "info" \in widgets => result = "none" /\ ~FPDF_available
    /\ widgets # {"download_button", "info"}
    /\ ~FPDF_available => result # "raised" /\ controls # "raised"
    /\ controls = "done" /\ ~FPDF_available => widgets = {"info"}

C11_Witness ==
    /\ controls = "done"
    /\ ~FPDF_available
    /\ widgets = {"info"}
    /\ info.badge_lines > 0

\* The history entry is present but is no list of numbers.
MalformedHistory ==
    \/ info.history_points.kind = "other"
    \/ \E i \in 1..Len(info.history_points.pts) : ~info.history_points.pts[i].num

C12_RaisesOnlyAt ==
    /\ result = "raised" =>
           \/ pc = StepIndex("header") /\ info.types.header_line # "str"
           \/ pc = StepIndex("badges") /\ info.types.badge_lines # "list"
           \/ pc = StepIndex("gauge") /\ info.types.slider # "dict"
           \/ pc = StepIndex("footer") /\ unicode_enabled
    /\ info.history_points.kind = "other" =>
           \A i \in 1..Len(doc) : doc[i] \notin ChartElements
    /\ pc > StepIndex("chart") /\ info.history_points.kind = "list" /\ MalformedHistory =>
           /\ Len(SelectSeq(doc, LAMBDA e : e = "chart_frame")) = 1
           /\ Len(SelectSeq(doc, LAMBDA e : e = "chart_segment")) = 0

\* C13: within one call the font mode is fixed before the first text is
\* written and never changes: every text write uses the one font family and
\* is sanitized under the one mode, the loaded unicode font in unicode mode
\* and the built-in font with Latin-1 transliteration in fallback mode, also
\* when loading the font file fails.
C13_UniformMode ==
    /\ \A i \in 1..Len(ops) :
           ops[i].op = "text" =>
               /\ ops[i].font.family = font_family
               /\ ops[i].uni = unicode_enabled
    /\ safe_modes \subseteq {unicode_enabled}
    /\ pc > 1 => font_family = (IF unicode_enabled THEN "AppFont" ELSE "Arial")
    /\ unicode_enabled => PDF_SUPPORTS_UNICODE

C13_Witness ==
    /\ PDF_SUPPORTS_UNICODE
    /\ ~unicode_enabled
    /\ Len(OpsOf("disclaimer")) = 1
    /\ OpsOf("disclaimer")[1].font.family = "Arial"
    /\ pdf.fonts # NewCanvas.fonts

AllLatin1(s) == \A i \in 1..Len(s) : s[i] <= LATIN1_MAX

\* C14: in fallback mode pdf_safe returns for every input string a string
\* all of whose characters are representable in Latin-1 (code point <= 255):
\* what it returns is the sanitized text without its other characters.
C14_FallbackLatin1 ==
    ~text_uni =>
        /\ \A k \in 1..Len(passes) : AllLatin1(passes[k])
        /\ AllLatin1(cleaned_text)
        /\ \A k \in 1..Len(written) : AllLatin1(written[k])
        /\ Len(passes) >= 1 =>
               passes[1] = SelectSeq(pdf_safe(text_in, TRUE),
                                     LAMBDA c : c <= LATIN1_MAX)

C14_Witness ==
    /\ ~text_uni
    /\ Len(passes) >= 1
    /\ Contains(text_in, <<8364>>)
    /\ Contains(text_in, <<233>>)
    /\ passes[1] = <<233>>

(***************************************************************************)
(* Claims about the polyline of the line chart (SpecChart).                *)
(***************************************************************************)
\* The history is a list of at least 2 numbers in ascending order.
AscendingHistory ==
    LET h == info.history_points IN
    /\ h.kind = "list"
    /\ Len(h.pts) >= 2
    /\ \A i \in 1..Len(h.pts) : h.pts[i].num
    /\ \A i \in 1..(Len(h.pts) - 1) : h.pts[i].v <= h.pts[i + 1].v

\* The Y coordinates of the polyline's points, in sample order.
PolylineY ==
    LET segs == OpsOf("chart_segment") IN
    IF segs = <<>> THEN <<>>
    ELSE <<segs[1].y1>> \o [k \in 1..Len(segs) |-> segs[k].y2]

JustDrewChart == pc = StepIndex("chart") + 1 /\ result = "running"

\* C15 as stated: for every ascending history of length >= 2 the chart is
\* drawn and the Y coordinates of the polyline's points, in sample order,
\* are monotonically non-decreasing.
C15_AscendingY ==
    (AscendingHistory /\ JustDrewChart) =>
        /\ Len(PolylineY) = Len(info.history_points.pts)
        /\ \A k \in 1..(Len(PolylineY) - 1) : PolylineY[k] <= PolylineY[k + 1]

\* C15, amended: for every ascending history of length >= 2 the chart is
\* drawn and the Y coordinates of the polyline's points, in sample order,
\* are monotonically non-increasing (Y grows down the page, so the line
\* rises with the values), from the bottom of the frame at the minimum.
C15_AscendingYInverted ==
    AscendingHistory =>
        /\ ~(result = "raised" /\ pc = StepIndex("chart"))
        /\ JustDrewChart =>
               /\ Len(OpsOf("chart_frame")) = 1
               /\ Len(PolylineY) = Len(info.history_points.pts)
               /\ \A k \in 1..(Len(PolylineY) - 1) : PolylineY[k] >= PolylineY[k + 1]
               /\ PolylineY[1] = OpsOf("chart_frame")[1].y + OpsOf("chart_frame")[1].h

C15_Witness ==
    /\ AscendingHistory
    /\ JustDrewChart
    /\ Len(PolylineY) = MaxHist
    /\ PolylineY[1] > PolylineY[2]
    /\ PolylineY[2] > PolylineY[MaxHist]

\* The history is a list of at least 2 numbers.
NumericHistory ==
    LET h == info.history_points IN
    /\ h.kind = "list"
    /\ Len(h.pts) >= 2
    /\ \A i \in 1..Len(h.pts) : h.pts[i].num

\* C20: for every numeric history of length n >= 2, sample i (from 0) is
\* mapped to x = chart_x + i * (chart_width / (n - 1)) and
\* y = chart_y + chart_height - (value_i - min_val) / span * chart_height,
\* and exactly n - 1 segments are drawn, segment k joining mapped point k - 1
\* to mapped point k: each starts where the previous one ended, the first at
\* x = chart_x and the last ends at x = chart_x + chart_width.
C20_PolylineMapping ==
    (NumericHistory /\ JustDrewChart) =>
        LET segs == OpsOf("chart_segment")
            frame == OpsOf("chart_frame")[1]
            vals == [i \in 1..Len(info.history_points.pts) |-> info.history_points.pts[i].v]
            n == Len(vals)
            lo == SeqMin(vals)
            span == IF SeqMax(vals) - lo > EPSILON THEN SeqMax(vals) - lo ELSE EPSILON
            \* point i (from 0) is at (x, y)
            IsPoint(i, x, y) ==
                /\ (x - frame.x) * (n - 1) = i * frame.w
                /\ (frame.y + frame.h - y) * span = (vals[i + 1] - lo) * frame.h
        IN  /\ Len(segs) = n - 1
            /\ \A k \in 1..(n - 1) :
                   /\ IsPoint(k - 1, segs[k].x1, segs[k].y1)
                   /\ IsPoint(k, segs[k].x2, segs[k].y2)
                   /\ k > 1 => segs[k].x1 = segs[k - 1].x2 /\ segs[k].y1 = segs[k - 1].y2
            /\ segs[1].x1 = frame.x
            /\ segs[n - 1].x2 = frame.x + frame.w
            /\ frame.h = CHART_HEIGHT * UNIT

C20_Witness ==
    /\ NumericHistory
    /\ JustDrewChart
    /\ Len(OpsOf("chart_segment")) = MaxHist - 1
    /\ OpsOf("chart_segment")[1].y2 < OpsOf("chart_segment")[1].y1
    /\ OpsOf("chart_segment")[2].y2 > OpsOf("chart_segment")[2].y1

(***************************************************************************)
(* Claims about repeated calls (SpecCalls).                                *)
(***************************************************************************)
\* Calls with equal inputs had equal outcomes.
Deterministic(outcomes) ==
    \A a, b \in outcomes : a.key = b.key => a = b

\* The canvases FPDF() and the add_font calls of lines 154-165 can leave.
FreshCanvases ==
    {NewCanvas, AddFont(NewCanvas, "AppFont", ""),
     AddFont(AddFont(NewCanvas, "AppFont", ""), "AppFont", "B")}

\* C16: build_pdf keeps no state between invocations: no step of a call
\* changes the module-level capabilities or the context passed in, each call
\* starts from a canvas of its own, and calls with equal inputs produce the
\* same sequence of drawing operations whatever calls preceded them.
C16_Stateless ==
    [][ /\ FPDF_available' = FPDF_available
        /\ UNICODE_FONT_PATH' = UNICODE_FONT_PATH
        /\ calls' = calls => info' = info /\ insights_text' = insights_text
        /\ (pc = 1 /\ pc' = 2) => pdf' \in FreshCanvases
        /\ result' # "running" => Deterministic(log' \cup {Outcome'}) ]_vars

C16_Witness ==
    /\ calls = 1
    /\ result = "bytes"
    /\ \E a \in log : a.key = Outcome.key /\ a.trace = trace /\ Len(trace) > 20
    /\ info.slider.present

(***************************************************************************)
(* Claims about the cursor (Spec).                                         *)
(***************************************************************************)
\* The text writes of the call so far: each starts at the cursor (after the
\* page break it may cause) and leaves the cursor at its end.
TextWrites == SelectSeq(trace, LAMBDA o : o.op = "text")

\* Position b is not above position a in the document.
NotAbove(page_a, y_a, page_b, y_b) ==
    page_b > page_a \/ (page_b = page_a /\ y_b >= y_a)

\* C17 as stated: the Y cursor never moves upward between consecutive
\* drawing operations, except for the reset that begins the right column.
C17_CursorY ==
    LET T == TextWrites IN
    /\ \A i \in 1..Len(T) : T[i].y <= T[i].y2
    /\ \A i \in 1..(Len(T) - 1) :
           T[i + 1].el = "right_title" \/ T[i].y2 <= T[i + 1].y

\* C17, amended: the cursor never moves upward within a page between
\* consecutive drawing operations -- it moves down the page or on to the top
\* of a following page -- except for the one reset to the shared start Y
\* that begins the right column.
C17_CursorDownward ==
    LET T == TextWrites IN
    /\ \A i \in 1..Len(T) : NotAbove(T[i].page, T[i].y, T[i].page2, T[i].y2)
    /\ \A i \in 1..(Len(T) - 1) :
           \/ T[i + 1].el = "right_title"
           \/ NotAbove(T[i].page2, T[i].y2, T[i + 1].page, T[i + 1].y)
    /\ (Len(T) > 0 /\ result = "running") =>
           NotAbove(T[Len(T)].page2, T[Len(T)].y2, pdf.page, pdf.y)
    /\ \A i \in 1..Len(T) :
           T[i].el = "right_title" => T[i].y = start_y /\ T[i].x = right_x
    /\ Len(SelectSeq(T, LAMBDA o : o.el = "right_title")) <= 1

C17_Witness ==
    LET T == TextWrites IN
    /\ result = "bytes"
    /\ pdf.page > 1
    /\ \E i \in 2..Len(T) :
           /\ T[i].el = "right_title"
           /\ T[i].page = T[i - 1].page2
           /\ T[i].y < T[i - 1].y2

(***************************************************************************)
(* services/ticker_service.py: resolve_stock_and_info.  Ticker strings are *)
(* sequences of code points; what Yahoo answers is the environment's       *)
(* choice at each request.                                                 *)
(***************************************************************************)
SPACE == 32
LOWER_A == 97
LOWER_Z == 122
CASE_OFFSET == 32
MaxInput == 2

\* A blank, a lower-case letter and two upper-case letters.
TickerChars == {SPACE, LOWER_A, 65, 66}
TickerInputs == UNION {[1..n -> TickerChars] : n \in 0..MaxInput}

\* str.upper()
Upper(s) ==
    [i \in 1..Len(s) |->
        IF LOWER_A <= s[i] /\ s[i] <= LOWER_Z THEN s[i] - CASE_OFFSET ELSE s[i]]

\* str.strip()
RECURSIVE LStrip(_)
LStrip(s) == IF s # <<>> /\ Head(s) = SPACE THEN LStrip(Tail(s)) ELSE s
RECURSIVE RStrip(_)
RStrip(s) ==
    IF s # <<>> /\ s[Len(s)] = SPACE THEN RStrip(SubSeq(s, 1, Len(s) - 1)) ELSE s
Strip(s) == RStrip(LStrip(s))

InSeq(x, q) == \E i \in 1..Len(q) : q[i] = x

\* Mutant of Enqueue: a symbol already queued is queued again.
Enqueue_again(candidates, symbol) ==
    IF symbol = <<>> THEN candidates ELSE Append(candidates, Upper(symbol))

\* enqueue(symbol), lines 73-78; None and "" are both falsy (<<>> here).
Enqueue(candidates, symbol) ==
    IF symbol = <<>> THEN candidates
    ELSE IF InSeq(Upper(symbol), candidates) THEN candidates
    ELSE Append(candidates, Upper(symbol))

\* What lookup_symbol_by_name can return: None, or symbol.upper().
Suggestions == {<<>>, Upper(<<LOWER_A>>), Upper(<<66>>)}

\* info["quoteType"] as Yahoo may spell it, "none" when absent.
QuoteTypes == {"none", "EQUITY", "ETF", "etf", "INDEX", "MUTUALFUND"}

\* str(info.get("quoteType") or "").upper()
UpperQuote(q) == IF q = "none" THEN "" ELSE IF q = "etf" THEN "ETF" ELSE q

INDEX_FUND_QUOTE_TYPES == {"ETF", "INDEX", "MUTUALFUND"}

\* What ticker_obj.info can do: raise, be empty, lack both price keys, or be
\* a dict with a price, a quote type and an isFund flag.
InfoChoices ==
    [status : {"raises", "empty", "no_price"}, quoteType : {"none"}, isFund : {FALSE}]
    \cup [status : {"ok"}, quoteType : QuoteTypes, isFund : BOOLEAN]

\* safe_fetch_info returns (ticker_obj, info) rather than (None, None)
ValidInfo(i) == i.status = "ok"

\* quote_type in INDEX_FUND_QUOTE_TYPES or is_fund
IsFundInfo(i) == UpperQuote(i.quoteType) \in INDEX_FUND_QUOTE_TYPES \/ i.isFund

InitTicker ==
    /\ TextIdle
    /\ PdfIdle
    /\ fund = [pc |-> "idle"]
    /\ app = [pc |-> "off"]
    /\ \E u \in TickerInputs :
           resolver = [pc |-> "entry", user_input |-> u, suggestion |-> <<>>,
                       candidates |-> <<>>, idx |-> 1, fetched |-> <<>>,
                       returned |-> <<>>]

ResolverFrame == UNCHANGED <<textvars, pdfvars, fund, app>>

\* Lines 67-80: strip, the blank check, enqueue(cleaned).
ResolveEntry ==
    /\ resolver.pc = "entry"
    /\ LET cleaned == Strip(resolver.user_input) IN
       resolver' = IF cleaned = <<>>
                   THEN [resolver EXCEPT !.pc = "InvalidTickerError"]
                   ELSE [resolver EXCEPT !.pc = "lookup",
                                         !.candidates = Enqueue(<<>>, cleaned)]
    /\ ResolverFrame

\* Lines 82-83: the name search and enqueue(suggestion).
ResolveLookup ==
    /\ resolver.pc = "lookup"
    /\ \E suggestion \in Suggestions :
           resolver' = [resolver EXCEPT
                            !.pc = "loop", !.suggestion = suggestion,
                            !.candidates = Enqueue(resolver.candidates, suggestion)]
    /\ ResolverFrame

\* Lines 85-92: one iteration of the loop over candidates.
ResolveFetch ==
    /\ resolver.pc = "loop"
    /\ resolver.idx <= Len(resolver.candidates)
    /\ \E i \in InfoChoices :
           LET candidate == resolver.candidates[resolver.idx]
               seen == Append(resolver.fetched, [symbol |-> candidate, info |-> i])
           IN  resolver' =
                   IF ~ValidInfo(i)
                   THEN [resolver EXCEPT !.idx = @ + 1, !.fetched = seen]
                   ELSE IF IsFundInfo(i)
                   THEN [resolver EXCEPT !.pc = "IndexFundTickerError", !.fetched = seen]
                   ELSE [resolver EXCEPT !.pc = "returned", !.fetched = seen,
                                         !.returned = candidate]
    /\ ResolverFrame

\* Line 94: no candidate had valid info.
ResolveExhausted ==
    /\ resolver.pc = "loop"
    /\ resolver.idx > Len(resolver.candidates)
    /\ resolver' = [resolver EXCEPT !.pc = "InvalidTickerError"]
    /\ ResolverFrame

NextTicker == ResolveEntry \/ ResolveLookup \/ ResolveFetch \/ ResolveExhausted

SpecTicker == InitTicker /\ [][NextTicker]_vars

\* The candidates the claim names: the trimmed, upper-cased input, then the
\* suggestion when it is another symbol.
ExpectedCandidates ==
    LET first == Upper(Strip(resolver.user_input))
        second == Upper(resolver.suggestion)
    IN  IF second = <<>> \/ second = first THEN <<first>> ELSE <<first, second>>

\* The info belongs to an ETF, an index or a mutual fund.
FundKind(i) ==
    \/ i.quoteType \in {"ETF", "etf", "INDEX", "MUTUALFUND"}
    \/ i.isFund

ResolverDone == resolver.pc \in {"returned", "IndexFundTickerError", "InvalidTickerError"}

\* C18: resolve_stock_and_info tries the candidates in order (the trimmed,
\* upper-cased input, then the suggestion if it is another symbol) and
\* returns the first one with valid info; it raises IndexFundTickerError when
\* that first valid candidate is a fund, trying no later one, and raises
\* InvalidTickerError when the input is blank or no candidate is valid.
C18_Resolve ==
    LET f == resolver.fetched
        blank == Strip(resolver.user_input) = <<>>
    IN  /\ resolver.pc \in {"loop"} \cup {"returned", "IndexFundTickerError", "InvalidTickerError"} =>
               /\ blank => f = <<>>
               /\ ~blank => /\ Len(f) <= Len(ExpectedCandidates)
                            /\ \A k \in 1..Len(f) : f[k].symbol = ExpectedCandidates[k]
               /\ \A k \in 1..(Len(f) - 1) : f[k].info.status # "ok"
        /\ resolver.pc = "returned" =>
               /\ f # <<>>
               /\ f[Len(f)].info.status = "ok" /\ ~FundKind(f[Len(f)].info)
               /\ resolver.returned = f[Len(f)].symbol
        /\ resolver.pc = "IndexFundTickerError" =>
               /\ f # <<>>
               /\ f[Len(f)].info.status = "ok" /\ FundKind(f[Len(f)].info)
        /\ resolver.pc = "InvalidTickerError" =>
               \/ blank
               \/ /\ Len(f) = Len(ExpectedCandidates)
                  /\ \A k \in 1..Len(f) : f[k].info.status # "ok"
        /\ (ResolverDone /\ blank) => resolver.pc = "InvalidTickerError"

C18_Witness ==
    /\ resolver.pc = "IndexFundTickerError"
    /\ Len(resolver.fetched) = 2
    /\ resolver.fetched[2].info.quoteType = "etf"
    /\ resolver.user_input # Upper(Strip(resolver.user_input))

(***************************************************************************)
(* services/portfolio_composition.py: fetch_portfolio_composition.         *)
(* Percentages are held in hundredths (100 is 1.0).                        *)
(***************************************************************************)
PERCENT_ONE == 100
PERCENT_SCALE == 100
MaxHoldings == 3

\* Fund tickers as typed: None or empty, blank, lower case, padded.
FundInputs == {<<>>, <<SPACE>>, <<LOWER_A>>, <<SPACE, 66>>}

\* item.get("holdingPercent"): absent, not a number, or a number
\* (-0.5, 0.5, 1.5, 50).
RawPercents ==
    {[kind |-> "none", v |-> 0], [kind |-> "bad", v |-> 0]}
    \cup [kind : {"num"}, v : {0 - 50, 50, 150, 50 * PERCENT_SCALE}]

\* _normalize_percent(raw_value), lines 67-77
NormalizePercent(raw) ==
    IF raw.kind # "num" THEN [kind |-> "none", v |-> 0]
    ELSE [kind |-> "num",
          v |-> IF raw.v <= PERCENT_ONE /\ 0 - raw.v <= PERCENT_ONE
                THEN raw.v * PERCENT_SCALE ELSE raw.v]

\* percent=percent if percent is not None else 0.0
HoldingPercent(raw) ==
    IF NormalizePercent(raw).kind = "none" THEN 0 ELSE NormalizePercent(raw).v

\* Lines 104-111: one Holding per raw item, in order (item k keeps its place
\* as its symbol).
BuildHoldings(raw_holdings) ==
    [k \in 1..Len(raw_holdings) |->
        [symbol |-> k, percent |-> HoldingPercent(raw_holdings[k])]]

\* list.sort(key=lambda h: h.percent, reverse=True): stable, largest first.
RECURSIVE InsertDesc(_, _)
InsertDesc(sorted, h) ==
    IF sorted = <<>> THEN <<h>>
    ELSE IF Head(sorted).percent >= h.percent
         THEN <<Head(sorted)>> \o InsertDesc(Tail(sorted), h)
         ELSE <<h>> \o sorted

RECURSIVE SortDesc(_)
SortDesc(hs) ==
    IF hs = <<>> THEN <<>>
    ELSE InsertDesc(SortDesc(SubSeq(hs, 1, Len(hs) - 1)), hs[Len(hs)])

\* What yq.Ticker(fund_symbol).fund_holding_info can be: the access raises,
\* the value is no dict, it lacks the symbol, the symbol's entry is a message
\* string, or the entry is a dict whose "holdings" is absent or a list.
FundDataChoices ==
    [kind : {"raises", "not_dict", "no_symbol", "entry_str", "no_holdings"},
     holdings : {<<>>}]
    \cup [kind : {"entry_dict"},
          holdings : UNION {[1..n -> RawPercents] : n \in 0..MaxHoldings}]

InitFund ==
    /\ TextIdle
    /\ PdfIdle
    /\ resolver = [pc |-> "idle"]
    /\ app = [pc |-> "off"]
    /\ \E u \in FundInputs :
           fund = [pc |-> "entry", symbol |-> u, info |-> <<>>, lookups |-> 0,
                   data |-> <<>>, holdings |-> <<>>]

FundFrame == UNCHANGED <<textvars, pdfvars, resolver, app>>

\* Lines 86-88
FundEntry ==
    /\ fund.pc = "entry"
    /\ fund' = [fund EXCEPT !.pc = IF Upper(Strip(fund.symbol)) = <<>>
                                   THEN "InvalidFundTickerError" ELSE "validate"]
    /\ FundFrame

\* _validate_fund_ticker, lines 47-64
FundValidate ==
    /\ fund.pc = "validate"
    /\ \E i \in InfoChoices :
           fund' = [fund EXCEPT
                        !.info = <<i>>,
                        !.pc = IF i.status \in {"raises", "empty"} \/ ~IsFundInfo(i)
                               THEN "InvalidFundTickerError" ELSE "lookup"]
    /\ FundFrame

\* Lines 92-117
FundLookup ==
    /\ fund.pc = "lookup"
    /\ \E d \in FundDataChoices :
           LET holdings == BuildHoldings(d.holdings) IN
           fund' = [fund EXCEPT
                        !.lookups = @ + 1,
                        !.data = <<d>>,
                        !.holdings = IF d.kind = "entry_dict" THEN SortDesc(holdings)
                                     ELSE <<>>,
                        !.pc = CASE d.kind \in {"raises", "not_dict", "no_symbol"} ->
                                        "FundCompositionUnavailableError"
                                 [] d.kind = "entry_str" -> "AttributeError"
                                 [] holdings = <<>> -> "FundCompositionUnavailableError"
                                 [] OTHER -> "returned"]
    /\ FundFrame

NextFund == FundEntry \/ FundValidate \/ FundLookup

SpecFund == InitFund /\ [][NextFund]_vars

NonIncreasing(hs) == \A k \in 1..(Len(hs) - 1) : hs[k].percent >= hs[k + 1].percent

\* The holdings data is missing or empty.
NoHoldingsData ==
    /\ fund.data # <<>>
    /\ \/ fund.data[1].kind \in {"not_dict", "no_symbol", "entry_str", "no_holdings"}
       \/ fund.data[1].kind = "entry_dict" /\ fund.data[1].holdings = <<>>

\* The ticker is blank, or is known not to be a fund.
NotAFund ==
    \/ Upper(Strip(fund.symbol)) = <<>>
    \/ fund.info # <<>> /\ ~FundKind(fund.info[1])

\* C19: fetch_portfolio_composition either raises or returns a composition
\* whose holdings are non-empty and sorted by percent, largest first; a
\* blank ticker or one that is no fund raises InvalidFundTickerError before
\* any holdings lookup, and missing or empty holdings data raises
\* FundCompositionUnavailableError.
C19_Composition ==
    /\ fund.pc = "returned" => fund.holdings # <<>> /\ NonIncreasing(fund.holdings)
    /\ NotAFund => /\ fund.lookups = 0
                   /\ fund.pc \in {"entry", "validate", "InvalidFundTickerError"}
    /\ NoHoldingsData => fund.pc = "FundCompositionUnavailableError"

\* What does hold: C19 for every answer but a symbol entry that is a string.
C19_ExceptStringEntry ==
    /\ fund.pc = "returned" =>
           /\ fund.holdings # <<>> /\ NonIncreasing(fund.holdings)
           /\ Len(fund.holdings) = Len(fund.data[1].holdings)
    /\ NotAFund => /\ fund.lookups = 0
                   /\ fund.pc \in {"entry", "validate", "InvalidFundTickerError"}
    /\ (NoHoldingsData /\ fund.data[1].kind # "entry_str") =>
           fund.pc = "FundCompositionUnavailableError"
    /\ fund.pc = "AttributeError" => fund.data[1].kind = "entry_str"

(***************************************************************************)
(* Claims about the order and the styling of the left column (Spec).       *)
(***************************************************************************)
GaugeElements == {"gauge_label", "gauge_track", "gauge_marker", "gauge_price"}

LeftElements == {"heading", "metric", "subheading"} \cup GaugeElements \cup ChartElements

RightElements == {"right_title", "right_body"}

\* The left column's elements drawn so far, in drawing order.
LeftDoc == SelectSeq(doc, LAMBDA e : e \in LeftElements)

\* The whole left column of a report for the context, in the claimed order:
\* heading (with its three price lines), gauge, line chart, heading, metrics,
\* heading, metrics (two captioned groups).
ExpectedLeftColumn ==
    LET h == info.history_points IN
    <<"heading">> \o Repeat("metric", 3)
    \o (IF info.slider.present
        THEN <<"gauge_label", "gauge_track", "gauge_marker", "gauge_price">> ELSE <<>>)
    \o (IF h.kind = "list" /\ Len(h.pts) > 1
        THEN <<"chart_heading", "chart_frame">>
             \o (IF \A i \in 1..Len(h.pts) : h.pts[i].num
                 THEN Repeat("chart_segment", Len(h.pts) - 1) ELSE <<>>)
        ELSE <<>>)
    \o <<"heading">> \o Repeat("metric", 3)
    \o <<"heading", "subheading">> \o Repeat("metric", 5)
    \o <<"subheading">> \o Repeat("metric", 5)

IsPrefix(a, b) == Len(a) <= Len(b) /\ SubSeq(b, 1, Len(a)) = a

\* Index of the k-th occurrence of e in doc (0 when there is none).
Nth(e, k) ==
    LET at == {i \in 1..Len(doc) : doc[i] = e}
        upto(i) == Cardinality({j \in at : j <= i})
    IN  IF Cardinality(at) < k THEN 0 ELSE CHOOSE i \in at : upto(i) = k

\* C21: in every build_pdf run the left column is drawn in the order
\* heading, gauge, line chart, heading, metrics, heading, metrics: what has
\* been drawn of it is always a prefix of that sequence, so the gauge (when
\* present) precedes the line chart (when present), both lie between the
\* first and the second heading, and the right column is started only when
\* the whole left column has been drawn.
C21_LeftColumnOrder ==
    LET left == LeftDoc
        headings(k) == Cardinality({j \in 1..k : left[j] = "heading"})
        charts(k) == Cardinality({j \in 1..k : left[j] \in ChartElements})
        rights == {i \in 1..Len(doc) : doc[i] \in RightElements}
    IN  /\ IsPrefix(left, ExpectedLeftColumn)
        /\ \A k \in 1..Len(left) :
               /\ left[k] \in GaugeElements => headings(k) = 1 /\ charts(k) = 0
               /\ left[k] \in ChartElements => headings(k) = 1
        /\ rights # {} =>
               /\ left = ExpectedLeftColumn
               /\ \A i \in rights :
                      SelectSeq(SubSeq(doc, 1, i), LAMBDA e : e \in LeftElements) = left

C21_Witness ==
    /\ result = "bytes"
    /\ info.slider.present
    /\ ChartWanted(info.history_points)
    /\ LeftDoc = ExpectedLeftColumn
    /\ Nth("gauge_label", 1) > Nth("heading", 1)
    /\ Nth("chart_heading", 1) > Nth("gauge_price", 1)
    /\ Nth("heading", 2) > Nth("chart_segment", 1)
    /\ Nth("right_title", 1) > Nth("metric", 16)

\* What a canvas holds besides the cursor's Y, the page and the font.
LayoutOf(p) == <<p.x, p.l_margin, p.r_margin, p.text_color, p.draw_color, p.fill_color>>

C23_LineEndings ==
    \A k \in 1..Len(line_endings) :
        /\ line_endings[k].crlf = line_endings[k].lf
        /\ line_endings[k].cr = line_endings[k].lf
        /\ Count(line_endings[k].lf, {CR}) = 0
        /\ Count(line_endings[k].crlf, {CR}) = 0
        /\ Count(line_endings[k].cr, {CR}) = 0

\* What does hold: no result contains a carriage return, the lone-CR form
\* gives what the LF form gives, and so does the CRLF form of every text
\* without an empty line (two line feeds in a row).
C23_ExceptEmptyLines ==
    \A k \in 1..Len(line_endings) :
        /\ ~Contains(text_in, <<LF, LF>>) => line_endings[k].crlf = line_endings[k].lf
        /\ line_endings[k].cr = line_endings[k].lf
        /\ Count(line_endings[k].lf, {CR}) = 0
        /\ Count(line_endings[k].crlf, {CR}) = 0
        /\ Count(line_endings[k].cr, {CR}) = 0

(***************************************************************************)
(* Claims about the fonts build_pdf selects (Spec).                        *)
(***************************************************************************)
\* The style the step about to run selects first with set_font.
StyleWanted(k) ==
    CASE k \in {"title", "heading", "subheading", "chart", "right_title"} -> "B"
      [] k = "footer" -> "I"
      [] OTHER -> ""

\* C24: every (family, style) pair build_pdf selects with set_font has been
\* registered beforehand, in both font modes: the font of every text written
\* is registered, the style the next step selects is registered, and no call
\* ends with an undefined-font exception.
C24_FontsRegistered ==
    /\ \A i \in 1..Len(trace) :
           trace[i].op = "text" =>
               FontDefined(pdf, trace[i].font.family, trace[i].font.style)
    /\ (result = "running" /\ pc \in 2..Len(Program)) =>
           FontDefined(pdf, font_family, StyleWanted(Program[pc].k))
    /\ result # "raised"

\* What does hold: the regular and bold styles selected are registered in
\* both modes, and the only undefined font is the italic style of the
\* unicode font, selected for the footer line.
C24_ExceptItalic ==
    /\ \A i \in 1..Len(trace) :
           trace[i].op = "text" =>
               FontDefined(pdf, trace[i].font.family, trace[i].font.style)
    /\ (result = "running" /\ pc \in 2..Len(Program)) =>
           \/ FontDefined(pdf, font_family, StyleWanted(Program[pc].k))
           \/ Program[pc].k = "footer" /\ font_family = "AppFont"
    /\ result = "raised" =>
           /\ pc = StepIndex("footer")
           /\ font_family = "AppFont"
           /\ ~FontDefined(pdf, "AppFont", "I")
    /\ (font_family = "Arial" /\ pc > StepIndex("footer")) =>
           \E i \in 1..Len(trace) : trace[i].el = "footer" /\ trace[i].font.style = "I"

(***************************************************************************)
(* app.py: one browser session of the Streamlit script.  Every user event  *)
(* starts a run of main(): the Company Analysis tab, then the Portfolio    *)
(* Composition tab.  st.session_state outlives the runs; the value of a    *)
(* button is True only in the run its click started.                       *)
(***************************************************************************)
MaxEvents == 3
MaxRows == 2
MaxReruns == 3

\* last_handled_holding_row when the key is absent (None).
NO_ROW == 0 - 2

\* What the user may type into the ticker box: nothing, blanks, one letter,
\* two letters.
QueryInputs == {<<>>, <<SPACE, SPACE>>, <<LOWER_A>>, <<LOWER_A, 66>>}

\* What the user may type into the fund ticker box.
FundTickerInputs == {<<>>, <<66>>}

\* Holding.symbol of a row: empty (or None), blank, or a symbol.
HoldingSymbols == {<<>>, <<SPACE>>, <<LOWER_A>>}

\* composition.holdings, by symbol: fetch_portfolio_composition returns at
\* least one holding.
Compositions == UNION {[1..n -> HoldingSymbols] : n \in 1..MaxRows}

\* The row indices the table's selection state may hold (rows are numbered
\* from 0), one of them negative and one beyond every table.
RowChoices == (0 - 1)..MaxRows

\* st.session_state of a new session, and no run under way.
AppStart ==
    [pc |-> "idle",
     session_state |-> [auto_learn_submit |-> FALSE,
                        last_handled_holding_row |-> NO_ROW,
                        company_query_input |-> <<>>,
                        fund_composition_ticker |-> <<>>,
                        selected_rows |-> <<>>],
     learn_button |-> FALSE, show_button |-> FALSE,
     ticker |-> <<>>, learn_clicked |-> FALSE, footer_rendered |-> FALSE,
     outcome |-> "none", footers |-> 0, messages |-> {}, holdings_shown |-> 0,
     events |-> 0, flag_sets |-> 0, auto_submits |-> 0, analyses |-> 0,
     reruns |-> 0, rerun_cause |-> <<>>]

InitApp ==
    /\ TextIdle
    /\ PdfIdle
    /\ resolver = [pc |-> "idle"]
    /\ fund = [pc |-> "idle"]
    /\ app = AppStart

AppFrame == UNCHANGED <<textvars, pdfvars, resolver, fund>>

\* The script starts over: the widgets get their values, the locals of the
\* previous run are gone.
NewRun(a, learn, show) ==
    [a EXCEPT !.pc = "query_form", !.learn_button = learn, !.show_button = show,
              !.ticker = <<>>, !.learn_clicked = FALSE, !.footer_rendered = FALSE,
              !.outcome = "none", !.footers = 0, !.messages = {},
              !.holdings_shown = 0]

\* _trigger_learn_submit, lines 38-40 (the on_change callback of the ticker
\* box), and lines 308-309 of _render_portfolio_holdings.
SetFlag(a) ==
    [a EXCEPT !.session_state.auto_learn_submit = TRUE, !.flag_sets = @ + 1]

\* The user changes the ticker box and presses Enter: on_change runs, then
\* the script.
UserEntersTicker ==
    /\ app.pc = "idle"
    /\ app.events < MaxEvents
    /\ \E q \in QueryInputs \ {app.session_state.company_query_input} :
           app' = NewRun(SetFlag([app EXCEPT !.session_state.company_query_input = q,
                                             !.events = @ + 1]),
                         FALSE, FALSE)
    /\ AppFrame

\* The user clicks "Learn About This Company".
UserClicksLearn ==
    /\ app.pc = "idle"
    /\ app.events < MaxEvents
    /\ app' = NewRun([app EXCEPT !.events = @ + 1], TRUE, FALSE)
    /\ AppFrame

\* The user fills the fund ticker box and clicks "Show Portfolio Composition".
UserClicksShow ==
    /\ app.pc = "idle"
    /\ app.events < MaxEvents
    /\ \E f \in FundTickerInputs :
           app' = NewRun([app EXCEPT !.session_state.fund_composition_ticker = f,
                                     !.events = @ + 1],
                         FALSE, TRUE)
    /\ AppFrame

\* The selection of the holdings table changes to another row.
UserSelectsRow ==
    /\ app.pc = "idle"
    /\ app.events < MaxEvents
    /\ \E r \in RowChoices :
           /\ app.session_state.selected_rows # <<r>>
           /\ app' = NewRun([app EXCEPT !.session_state.selected_rows = <<r>>,
                                        !.events = @ + 1, !.reruns = 0],
                            FALSE, FALSE)
    /\ AppFrame

\* suggestion (lines 65-77): None unless the query has two characters and
\* the name search answers; then what the select box holds, the answer or
\* the query.
SuggestionChoices(query) ==
    IF Len(Strip(query)) >= 2
    THEN {<<>>, Strip(query)} \cup Suggestions
    ELSE {<<>>}

\* ticker = ((suggestion or query) or "").strip().upper(), lines 78-79
TickerOf(query, suggestion) ==
    Upper(Strip(IF suggestion # <<>> THEN suggestion ELSE query))

\* Mutant of PopFlag: the flag is read and left in place.
PopFlag_get(session_state) == session_state

\* st.session_state.pop("auto_learn_submit", False), line 94
PopFlag(session_state) == [session_state EXCEPT !.auto_learn_submit = FALSE]

\* _render_query_form, lines 56-101
RenderQueryForm ==
    /\ app.pc = "query_form"
    /\ \E suggestion \in SuggestionChoices(app.session_state.company_query_input) :
           LET ticker == TickerOf(app.session_state.company_query_input, suggestion)
               popped == app.session_state.auto_learn_submit
               submit == popped /\ ticker # <<>>
           IN  app' = [app EXCEPT
                           !.pc = "analysis",
                           !.session_state = PopFlag(app.session_state),
                           !.ticker = ticker,
                           !.learn_clicked = app.learn_button \/ submit,
                           !.auto_submits = IF submit THEN @ + 1 ELSE @]
    /\ AppFrame

\* How the try block of lines 230-234 can end: resolve_stock_and_info raises
\* IndexFundTickerError or InvalidTickerError; something raises before
\* _render_analysis reaches render_footer (line 209); _display_insights or
\* _render_pdf_controls raises after it (the insights request fails, build_pdf
\* raises); or _render_analysis returns True.
AnalysisOutcomes ==
    {"IndexFundTickerError", "InvalidTickerError", "raises_before_footer",
     "raises_after_footer", "returns"}

\* render_footer() has run inside _render_analysis (line 209).
FooterDrawnInside(outcome) == outcome \in {"raises_after_footer", "returns"}

\* Lines 226-242 of _render_company_analysis_tab.
RenderAnalysis ==
    /\ app.pc = "analysis"
    /\ IF app.learn_clicked /\ app.ticker # <<>>
       THEN \E outcome \in AnalysisOutcomes :
                app' = [app EXCEPT
                            !.pc = "tab_footer",
                            !.outcome = outcome,
                            !.analyses = @ + 1,
                            !.footers = IF FooterDrawnInside(outcome) THEN 1 ELSE 0,
                            !.footer_rendered = (outcome = "returns"),
                            !.messages =
                                CASE outcome \in {"IndexFundTickerError", "InvalidTickerError"}
                                         -> {"warning"}
                                  [] outcome = "returns" -> {}
                                  [] OTHER -> {"error"}]
       ELSE app' = [app EXCEPT
                        !.pc = "tab_footer",
                        !.messages = IF app.learn_clicked THEN {"warning"} ELSE {}]
    /\ AppFrame

\* Lines 244-245: if not footer_rendered: render_footer()
RenderTabFooter ==
    /\ app.pc = "tab_footer"
    /\ app' = [app EXCEPT !.pc = "portfolio",
                          !.footers = IF app.footer_rendered THEN @ ELSE @ + 1]
    /\ AppFrame

\* Mutant of MarkHandled: the row is never recorded as handled.
MarkHandled_never(session_state, selected_idx) == session_state

\* st.session_state["last_handled_holding_row"] = selected_idx, line 305
MarkHandled(session_state, selected_idx) ==
    [session_state EXCEPT !.last_handled_holding_row = selected_idx]

\* Line 304, rows numbered from 0.
RowToHandle(session_state, selected_idx, holdings) ==
    /\ selected_idx # session_state.last_handled_holding_row
    /\ 0 <= selected_idx
    /\ selected_idx < Len(holdings)

\* _render_portfolio_tab, lines 313-337, with _render_portfolio_holdings,
\* lines 248-310.  fetch_portfolio_composition raises or returns a
\* composition.  Assigning to the key of the ticker box after the box was
\* drawn in this run is refused by some Streamlit versions (an exception
\* caught at line 334).  st.experimental_rerun() leaves the script by an
\* exception that is no Exception: the run ends there and the script starts
\* over, with the clicked button still set or not.
RenderPortfolioTab ==
    /\ app.pc = "portfolio"
    /\ \/ /\ ~app.show_button \/ app.session_state.fund_composition_ticker = <<>>
          /\ app' = [app EXCEPT !.pc = "idle"]
       \/ /\ app.show_button /\ app.session_state.fund_composition_ticker # <<>>
          /\ app' = [app EXCEPT !.pc = "idle"]    \* fetch raises (lines 330-335)
       \/ /\ app.show_button /\ app.session_state.fund_composition_ticker # <<>>
          /\ \E holdings \in Compositions, assignable, button_kept \in BOOLEAN :
                 LET selected_rows == app.session_state.selected_rows
                     selected_idx == selected_rows[Len(selected_rows)]
                     target_ticker == Upper(Strip(holdings[selected_idx + 1]))
                     marked == MarkHandled(app.session_state, selected_idx)
                     shown == [app EXCEPT !.holdings_shown = Len(holdings)]
                 IN  IF selected_rows = <<>>
                        \/ ~RowToHandle(app.session_state, selected_idx, holdings)
                     THEN app' = [shown EXCEPT !.pc = "idle"]
                     ELSE IF target_ticker = <<>> \/ ~assignable
                     THEN app' = [shown EXCEPT !.pc = "idle", !.session_state = marked]
                     ELSE /\ app.reruns < MaxReruns
                          /\ app' = NewRun(
                                 SetFlag([app EXCEPT
                                     !.session_state =
                                         [marked EXCEPT !.company_query_input = target_ticker],
                                     !.reruns = @ + 1,
                                     !.rerun_cause = <<[selected_idx |-> selected_idx,
                                                        rows |-> Len(holdings),
                                                        target_ticker |-> target_ticker]>>]),
                                 FALSE, button_kept)
    /\ AppFrame

NextApp ==
    \/ UserEntersTicker \/ UserClicksLearn \/ UserClicksShow \/ UserSelectsRow
    \/ RenderQueryForm \/ RenderAnalysis \/ RenderTabFooter \/ RenderPortfolioTab

SpecApp == InitApp /\ [][NextApp]_vars

(***************************************************************************)
(* Claims about the Streamlit script (SpecApp).                            *)
(***************************************************************************)
\* _render_company_analysis_tab has returned in the run under way.
CompanyTabDone == app.pc = "portfolio"

\* C25: in every run of the Company Analysis tab the global footer is
\* rendered exactly once, also when the analysis raises after
\* _render_analysis has drawn the footer: never more than once during the
\* run, and once when the tab is done.
C25_FooterOnce ==
    /\ app.footers <= 1
    /\ CompanyTabDone => app.footers = 1

\* What does hold: the footer is drawn once in every run but those in which
\* the analysis raises after line 209, and twice in those.
C25_FooterTwiceAfterRaise ==
    /\ app.footers <= 2
    /\ CompanyTabDone =>
           app.footers = (IF app.outcome = "raises_after_footer" THEN 2 ELSE 1)
    /\ app.footer_rendered <=> app.outcome = "returns"

(***************************************************************************)
(* Claims about the chart frame and its polyline (SpecChart).              *)
(***************************************************************************)
BLACK == <<0, 0, 0>>

\* C26: whenever build_pdf draws the line-chart heading and frame it also
\* draws the polyline of n - 1 segments and leaves the draw colour black:
\* no build emits an empty chart frame, also when a history sample cannot be
\* converted to a number.
C26_NoEmptyFrame ==
    JustDrewChart =>
        /\ Len(OpsOf("chart_frame")) = 1 =>
               /\ Len(OpsOf("chart_heading")) = 1
               /\ Len(OpsOf("chart_segment")) = Len(info.history_points.pts) - 1
        /\ pdf.draw_color = BLACK

\* What does hold: the polyline is complete and the colour restored for
\* every numeric history; one sample that is no number leaves the heading
\* and the frame without polyline and the draw colour at the frame's grey.
C26_EmptyFrameIffNonNumeric ==
    JustDrewChart =>
        /\ Len(OpsOf("chart_frame")) = (IF ChartWanted(info.history_points) THEN 1 ELSE 0)
        /\ Len(OpsOf("chart_heading")) = Len(OpsOf("chart_frame"))
        /\ NumericHistory =>
               /\ Len(OpsOf("chart_segment")) = Len(info.history_points.pts) - 1
               /\ pdf.draw_color = BLACK
        /\ (ChartWanted(info.history_points) /\ ~NumericHistory) =>
               /\ Len(OpsOf("chart_segment")) = 0
               /\ pdf.draw_color = OpsOf("chart_frame")[1].color
               /\ pdf.draw_color # BLACK
        /\ ~ChartWanted(info.history_points) => pdf.draw_color = BLACK

\* The polyline's points, in sample order.
PolylinePoints ==
    LET segs == OpsOf("chart_segment") IN
    IF segs = <<>> THEN <<>>
    ELSE <<[x |-> segs[1].x1, y |-> segs[1].y1]>>
         \o [k \in 1..Len(segs) |-> [x |-> segs[k].x2, y |-> segs[k].y2]]

\* C27: for every numeric history of length >= 2 every mapped polyline
\* point lies inside the chart frame, chart_x <= x <= chart_x + chart_width
\* and chart_y <= y <= chart_y + chart_height, and each minimum sample lies
\* on the bottom edge.
C27_PointsInsideFrame ==
    (NumericHistory /\ JustDrewChart) =>
        LET frame == OpsOf("chart_frame")[1]
            pts == PolylinePoints
            h == info.history_points.pts
        IN  /\ Len(pts) = Len(h)
            /\ \A i \in 1..Len(pts) :
                   /\ frame.x <= pts[i].x
                   /\ pts[i].x <= frame.x + frame.w
                   /\ frame.y <= pts[i].y
                   /\ pts[i].y <= frame.y + frame.h
                   /\ (\A j \in 1..Len(h) : h[i].v <= h[j].v) =>
                          pts[i].y = frame.y + frame.h

C27_Witness ==
    /\ NumericHistory
    /\ JustDrewChart
    /\ Len(PolylinePoints) = MaxHist
    /\ info.history_points.pts[1].v = MaxVal
    /\ info.history_points.pts[2].v = 1
    /\ info.history_points.pts[MaxHist].v = MaxVal - 1
    /\ PolylinePoints[1].y = OpsOf("chart_frame")[1].y
    /\ PolylinePoints[MaxHist].x = OpsOf("chart_frame")[1].x + OpsOf("chart_frame")[1].w
    /\ \E i \in 1..MaxHist :
           PolylinePoints[i].y = OpsOf("chart_frame")[1].y + OpsOf("chart_frame")[1].h

\* C28: the auto_learn_submit flag is consumed by exactly one run: it is
\* absent from the session state whenever _render_query_form has run, a set
\* flag becomes a submit (learn_clicked = True without a click) in that run
\* only if the ticker is non-empty, and an analysis runs only on a submit, so
\* the submits made from flags never outnumber the times the flag was set
\* (one Enter press or one holdings-row selection each).
C28_FlagConsumedOnce ==
    [][ /\ app'.pc # "query_form" => ~app'.session_state.auto_learn_submit
        /\ (app.pc = "query_form" /\ app'.pc = "analysis") =>
               /\ ~app'.session_state.auto_learn_submit
               /\ app'.learn_clicked =
                      (app.learn_button
                       \/ (app.session_state.auto_learn_submit /\ app'.ticker # <<>>))
        /\ app'.analyses > app.analyses =>
               /\ app'.analyses = app.analyses + 1
               /\ app.learn_clicked /\ app.ticker # <<>>
               /\ app.pc = "analysis"
        /\ app'.auto_submits <= app'.flag_sets ]_vars

C28_Witness ==
    /\ app.pc = "tab_footer"
    /\ ~app.learn_button
    /\ app.outcome # "none"
    /\ app.rerun_cause # <<>>
    /\ app.ticker = app.rerun_cause[1].target_ticker
    /\ app.flag_sets = 2
    /\ app.auto_submits = 1
    /\ app.analyses = 1
    /\ ~app.session_state.auto_learn_submit

\* The row the table's selection state names (its last entry), if any.
SelectedIdx(a) ==
    IF a.session_state.selected_rows = <<>> THEN NO_ROW
    ELSE a.session_state.selected_rows[Len(a.session_state.selected_rows)]

\* The step leaves the script by st.experimental_rerun().
RerunRequested == app.pc = "portfolio" /\ app'.pc = "query_form"

\* C29: selecting a holdings row triggers at most one rerun per change of
\* the selected row: a rerun is requested only for a selected row that is
\* not last_handled_holding_row, lies within the holdings list and has a
\* non-empty symbol, and it records the row as handled, so that no further
\* rerun is requested while the selection stays (the cycle cannot loop).
C29_OneRerunPerSelection ==
    [][ /\ RerunRequested =>
               /\ app.session_state.selected_rows # <<>>
               /\ SelectedIdx(app) # app.session_state.last_handled_holding_row
               /\ app'.session_state.last_handled_holding_row = SelectedIdx(app)
               /\ SelectedIdx(app') = SelectedIdx(app)
               /\ app'.rerun_cause[1].selected_idx = SelectedIdx(app)
               /\ app'.rerun_cause[1].selected_idx \in 0..(app'.rerun_cause[1].rows - 1)
               /\ app'.rerun_cause[1].target_ticker # <<>>
        /\ (app.pc = "portfolio"
            /\ SelectedIdx(app) = app.session_state.last_handled_holding_row) =>
               ~RerunRequested
        /\ app'.reruns <= 1 ]_vars

C29_Witness ==
    /\ app.pc = "idle"
    /\ app.reruns = 1
    /\ app.show_button
    /\ app.holdings_shown > 0
    /\ SelectedIdx(app) = app.session_state.last_handled_holding_row
    /\ SelectedIdx(app) < app.holdings_shown

(***************************************************************************)
(* Claims about the left margin (Spec).                                    *)
(***************************************************************************)
\* C30: each write_right_block call leaves the canvas left margin as it was
\* before the call (the page's original margin, although the block itself is
\* written from right_x), so the footer and the disclaimer start at the
\* original left margin and span the full page width, not the right
\* column's.
C30_MarginRestored ==
    /\ pc > 1 => pdf.l_margin = NewCanvas.l_margin
    /\ \A i \in 1..Len(trace) :
           /\ trace[i].el \in RightElements =>
                  trace[i].x = right_x /\ trace[i].w = right_width
           /\ trace[i].el \in {"footer", "disclaimer"} =>
                  /\ trace[i].x = NewCanvas.l_margin
                  /\ trace[i].w = mm(PAGE_W) - NewCanvas.r_margin - NewCanvas.l_margin
                  /\ trace[i].w > right_width

C30_Witness ==
    /\ result = "bytes"
    /\ insights_text.lines = 2 * LongLines
    /\ \E i, j \in 1..Len(trace) :
           /\ i < j
           /\ trace[i].el = "right_body"
           /\ trace[i].x = right_x
           /\ trace[i].page2 > trace[i].page
           /\ trace[j].el = "disclaimer"
           /\ trace[j].x = mm(PAGE_MARGIN)
           /\ trace[j].w = mm(PAGE_W) - 2 * mm(PAGE_MARGIN)

====
